---- MODULE Spec2Model ----
(***************************************************************************)
(* A model of the mozart music engine (crates/mozart-core) and of the      *)
(* layers that drive it (the wasm Mozart wrapper, the Tauri command        *)
(* layer).  Pure functions of the engine are operators; the Score and the  *)
(* TimeSignature are state machines with one action per method.            *)
(***************************************************************************)
EXTENDS Integers, Sequences, FiniteSets, TLC

VARIABLES
    \* ---- transposition of one pitch (transpose.rs) ----
    t_pitch,      \* the MIDI number handed to the transposition
    t_source,     \* source scale
    t_target,     \* target scale
    t_degrees,    \* degrees argument (i8)
    t_semitones,  \* semitones argument (i8) of the chromatic transposition
    t_result,     \* result of transpose_pitch_diatonic, NotCalled before the call
    t_chromatic,  \* result of transpose_pitch_chromatic, NotCalled before the call
    \* ---- the Score (song.rs) behind the Mozart wrapper (wasm.rs) ----
    song,         \* the Song
    now,          \* the system clock, in seconds
    s_last,       \* the last call on the song: its name, outcome and pre-state
    s_mutated_at, \* the clock reading at the most recent mutation of the song
    s_ops,        \* number of calls made so far
    \* ---- the Tauri command layer's history (src-tauri/src/lib.rs) ----
    undo_stack,   \* AppState.undo_stack
    redo_stack,   \* AppState.redo_stack
    \* ---- a time signature (time.rs) ----
    meter,        \* the TimeSignature
    meter_last,   \* the last call on it: its name, inputs, outcome, pre-state
    \* ---- one call of a function of the core ----
    call,         \* the arguments of the call
    result,       \* what the call returned, and whether it was made
    \* ---- the command layer's threads (src-tauri/src/lib.rs) ----
    locks,        \* the holder of each lock that is held across statements
    threads       \* each thread's command, its position in it and its locals

tvars == <<t_pitch, t_source, t_target, t_degrees, t_semitones, t_result,
           t_chromatic>>

svars == <<song, now, s_last, s_mutated_at, s_ops>>
avars == <<undo_stack, redo_stack>>

mvars == <<meter, meter_last>>

fvars == <<call, result>>

kvars == <<locks, threads>>

vars == <<tvars, svars, avars, mvars, fvars, kvars>>

----------------------------------------------------------------------------
(* Integer helpers: Rust's `/` and `%` truncate toward zero, rem_euclid is *)
(* the floor remainder (TLA+'s %), and i8 arithmetic either panics (debug  *)
(* builds, overflow-checks on) or wraps (release builds).                  *)

I8_MIN == -128
I8_MAX == 127
MIDI_MAX == 127

TruncDiv(a, b) == IF a >= 0 THEN a \div b ELSE -((-a) \div b)
TruncRem(a, b) == a - b * TruncDiv(a, b)
RemEuclid(a, b) == a % b
Abs(a) == IF a < 0 THEN -a ELSE a
WrapI8(x) == ((x + 128) % 256) - 128
InI8(x) == x >= I8_MIN /\ x <= I8_MAX

\* An i8 operation whose exact value is x: the value when it fits, else a
\* panic under overflow checks (debug builds) and the wrapped value without
\* them (release builds).
Overflows(x, overflow_checks) == overflow_checks /\ ~InI8(x)

----------------------------------------------------------------------------
(* Results: Ok(pitch), Err(kind), or a panic that unwinds the caller.      *)

Ok(m) == [ok |-> TRUE, midi |-> m, err |-> "none"]
Err(e) == [ok |-> FALSE, midi |-> -1, err |-> e]
Panic == Err("panic")
NotCalled == Err("not_called")

----------------------------------------------------------------------------
(* pitch.rs *)

PitchClasses == 0..11

\* The same with the truncating remainder `%`
PitchClass_transpose_truncating(pc, semitones) == TruncRem(pc + semitones, 12)

\* PitchClass::transpose: (pc + n).rem_euclid(12), computed in i16
PitchClass_transpose(pc, semitones) == RemEuclid(pc + semitones, 12)

\* PitchClass::interval_to
interval_to(self, other) == RemEuclid(other - self, 12)

\* Pitch::new(pitch_class, octave): `(octave + 1) as i16 * 12 + semitones`,
\* the sum octave + 1 being an i8 one
Pitch_new(pitch_class, octave, overflow_checks) ==
    LET midi == WrapI8(octave + 1) * 12 + pitch_class
    IN IF Overflows(octave + 1, overflow_checks) THEN Panic
       ELSE IF midi < 0 \/ midi > MIDI_MAX THEN Err("InvalidPitch")
       ELSE Ok(midi)

\* Pitch::from_midi
Pitch_from_midi(midi) ==
    IF midi > MIDI_MAX THEN Err("InvalidPitch") ELSE Ok(midi)

\* Pitch::pitch_class and Pitch::octave
pitch_class(midi) == midi % 12
octave(midi) == (midi \div 12) - 1

\* Pitch::transpose
Pitch_transpose(midi, semitones) ==
    LET new_midi == midi + semitones
    IN IF new_midi < 0 \/ new_midi > MIDI_MAX
       THEN Err("TranspositionError") ELSE Ok(new_midi)

----------------------------------------------------------------------------
(* scale.rs *)

ScaleTypes == {"Major", "NaturalMinor", "HarmonicMinor", "MelodicMinor",
               "Dorian", "Phrygian", "Lydian", "Mixolydian", "Locrian"}

\* ScaleType::intervals
intervals(scale_type) ==
    CASE scale_type = "Major"         -> <<0, 2, 4, 5, 7, 9, 11>>
      [] scale_type = "NaturalMinor"  -> <<0, 2, 3, 5, 7, 8, 10>>
      [] scale_type = "HarmonicMinor" -> <<0, 2, 3, 5, 7, 8, 11>>
      [] scale_type = "MelodicMinor"  -> <<0, 2, 3, 5, 7, 9, 11>>
      [] scale_type = "Dorian"        -> <<0, 2, 3, 5, 7, 9, 10>>
      [] scale_type = "Phrygian"      -> <<0, 1, 3, 5, 7, 8, 10>>
      [] scale_type = "Lydian"        -> <<0, 2, 4, 6, 7, 9, 11>>
      [] scale_type = "Mixolydian"    -> <<0, 2, 4, 5, 7, 9, 10>>
      [] scale_type = "Locrian"       -> <<0, 1, 3, 5, 6, 8, 10>>

Scale_new(root, scale_type) == [root |-> root, scale_type |-> scale_type]
Scales == {Scale_new(r, st) : r \in PitchClasses, st \in ScaleTypes}
c_major == Scale_new(0, "Major")
a_minor == Scale_new(9, "NaturalMinor")

\* Scale::contains
contains(scale, pc) ==
    \E i \in 1..7 : intervals(scale.scale_type)[i] = interval_to(scale.root, pc)

\* Scale::degree_of: Some(1-based position) or 0 for None
degree_of(scale, pc) ==
    LET interval == interval_to(scale.root, pc)
        table == intervals(scale.scale_type)
    IN IF \E i \in 1..7 : table[i] = interval
       THEN CHOOSE i \in 1..7 : table[i] = interval
       ELSE 0

\* Scale::degree: Some(pitch class) or -1 for None
degree(scale, n) ==
    IF n < 1 \/ n > 7 THEN -1
    ELSE PitchClass_transpose(scale.root, intervals(scale.scale_type)[n])

\* The scan of Scale::nearest_scale_tone: candidate k of 1..21 is tone
\* ((k-1) div 3)+1 of the table with adjustment diff, diff-12, diff+12.
nearest_candidate(scale, pc, k) ==
    LET diff == intervals(scale.scale_type)[((k - 1) \div 3) + 1]
                - interval_to(scale.root, pc)
        j == (k - 1) % 3
    IN IF j = 0 THEN diff ELSE IF j = 1 THEN diff - 12 ELSE diff + 12

\* A comparison that lets the later of two equal distances win
not_farther(adj, best_adjustment) == Abs(adj) <= Abs(best_adjustment)

\* `adj.abs() < best_adjustment.abs()`
closer(adj, best_adjustment) == Abs(adj) < Abs(best_adjustment)

RECURSIVE nearest_scan(_, _, _, _)
nearest_scan(scale, pc, k, best) ==
    IF k > 21 THEN best
    ELSE LET adj == nearest_candidate(scale, pc, k)
         IN nearest_scan(scale, pc, k + 1,
                IF closer(adj, best.adjustment)
                THEN [pc |-> PitchClass_transpose(pc, adj), adjustment |-> adj]
                ELSE best)

\* Scale::nearest_scale_tone
nearest_scale_tone(scale, pc) ==
    IF contains(scale, pc) THEN [pc |-> pc, adjustment |-> 0]
    ELSE nearest_scan(scale, pc, 1, [pc |-> pc, adjustment |-> I8_MAX])

----------------------------------------------------------------------------
(* transpose.rs: transposition of one pitch *)

\* transpose_pitch_chromatic
transpose_pitch_chromatic(pitch, semitones) == Pitch_transpose(pitch, semitones)

\* `let (source_degree, octave_adjustment) = ...`: the degree of the pitch
\* class in the source scale, or of its nearest scale tone; 0 when the
\* lookup fails.  The octave adjustment is 0 on both branches.
source_degree(source_scale, pc) ==
    IF degree_of(source_scale, pc) # 0
    THEN [deg |-> degree_of(source_scale, pc), octave_adjustment |-> 0]
    ELSE [deg |-> degree_of(source_scale, nearest_scale_tone(source_scale, pc).pc),
          octave_adjustment |-> 0]

\* `let full_octaves = degrees / 7;`
full_octaves_none(degrees) == 0
full_octaves(degrees) == TruncDiv(degrees, 7)

\* `let remaining_degrees = degrees % 7;`
remaining_degrees(degrees) == TruncRem(degrees, 7)

\* `let boundary_cross = ...`
boundary_cross_none(remaining, old_semitones, new_semitones) == 0
\* A boundary that is seen on the way up only
boundary_cross_upward(remaining, old_semitones, new_semitones) ==
    IF remaining > 0 /\ new_semitones < old_semitones THEN 1 ELSE 0

boundary_cross(remaining, old_semitones, new_semitones) ==
    IF remaining > 0
    THEN (IF new_semitones < old_semitones THEN 1 ELSE 0)
    ELSE IF remaining < 0
         THEN (IF new_semitones > old_semitones THEN -1 ELSE 0)
         ELSE 0

\* transpose_pitch_diatonic.  overflow_checks is the build's setting.
transpose_pitch_diatonic(pitch, source_scale, target_scale, degrees, overflow_checks) ==
    LET pc == pitch_class(pitch)
        oct == octave(pitch)
        src == source_degree(source_scale, pc)
        raw_exact == src.deg + degrees
        new_degree_raw == WrapI8(raw_exact)
        \* octave_change is computed (and only logged)
        octave_change_exact ==
            IF new_degree_raw > 7 THEN new_degree_raw - 1
            ELSE IF new_degree_raw < 1 THEN new_degree_raw - 7
            ELSE 0
        minus_one_exact == new_degree_raw - 1
        new_degree == RemEuclid(WrapI8(minus_one_exact), 7) + 1
        new_pc == degree(target_scale, new_degree)
        cross == boundary_cross(remaining_degrees(degrees), pc, new_pc)
        octave_exact == oct + full_octaves(degrees) + cross + src.octave_adjustment
        new_octave == WrapI8(octave_exact)
    IN IF src.deg = 0 THEN Err("TranspositionError")
       ELSE IF Overflows(raw_exact, overflow_checks) THEN Panic
       ELSE IF Overflows(octave_change_exact, overflow_checks) THEN Panic
       ELSE IF Overflows(minus_one_exact, overflow_checks) THEN Panic
       ELSE IF new_pc = -1 THEN Err("TranspositionError")
       ELSE IF Overflows(octave_exact, overflow_checks) THEN Panic
       ELSE Pitch_new(new_pc, new_octave, overflow_checks)

----------------------------------------------------------------------------
(* time.rs: accent patterns and time signatures.  A text is a sequence of  *)
(* one-character strings.                                                   *)

Weak == "Weak"
Medium == "Medium"
Strong == "Strong"
AccentLevels == {Weak, Medium, Strong}

\* AccentPattern::default_for_beats
default_for_beats(beats) ==
    CASE beats = 2 -> <<Strong, Weak>>
      [] beats = 3 -> <<Strong, Weak, Weak>>
      [] beats = 4 -> <<Strong, Weak, Medium, Weak>>
      [] beats = 5 -> <<Strong, Weak, Weak, Medium, Weak>>
      [] beats = 6 -> <<Strong, Weak, Weak, Medium, Weak, Weak>>
      [] beats = 7 -> <<Strong, Weak, Weak, Medium, Weak, Medium, Weak>>
      [] beats = 8 -> <<Strong, Weak, Medium, Weak, Medium, Weak, Medium, Weak>>
      [] beats = 9 -> <<Strong, Weak, Weak, Medium, Weak, Weak, Medium, Weak, Weak>>
      [] beats = 10 -> <<Strong, Weak, Weak, Medium, Weak, Medium, Weak, Medium,
                         Weak, Weak>>
      [] beats = 11 -> <<Strong, Weak, Weak, Medium, Weak, Weak, Medium, Weak,
                         Weak, Medium, Weak>>
      [] beats = 12 -> <<Strong, Weak, Weak, Medium, Weak, Weak, Medium, Weak,
                         Weak, Medium, Weak, Weak>>
      [] beats = 13 -> <<Strong, Weak, Weak, Medium, Weak, Weak, Medium, Weak,
                         Weak, Medium, Weak, Medium, Weak>>
      [] beats = 14 -> <<Strong, Weak, Medium, Weak, Medium, Weak, Medium, Weak,
                         Medium, Weak, Medium, Weak, Medium, Weak>>
      [] beats = 15 -> <<Strong, Weak, Weak, Medium, Weak, Weak, Medium, Weak,
                         Weak, Medium, Weak, Weak, Medium, Weak, Weak>>
      [] OTHER -> [i \in 1..beats |-> IF i = 1 THEN Strong ELSE Weak]

\* AccentPattern::set (beat is 0-indexed)
AccentPattern_set(accents, beat, level) ==
    IF beat < Len(accents) THEN [accents EXCEPT ![beat + 1] = level] ELSE accents

\* A cycle that stops at Strong
AccentPattern_cycle_saturating(accents, beat) ==
    IF beat < Len(accents)
    THEN [accents EXCEPT ![beat + 1] =
            IF accents[beat + 1] = Weak THEN Medium ELSE Strong]
    ELSE accents

\* AccentPattern::cycle (beat is 0-indexed)
AccentPattern_cycle(accents, beat) ==
    IF beat < Len(accents)
    THEN [accents EXCEPT ![beat + 1] =
            CASE accents[beat + 1] = Weak -> Medium
              [] accents[beat + 1] = Medium -> Strong
              [] accents[beat + 1] = Strong -> Weak]
    ELSE accents

NoTimeSignature == [numerator |-> 0, denominator |-> 0, accents |-> <<>>]
TsOk(ts) == [ok |-> TRUE, ts |-> ts, err |-> "none"]
TsErr(e) == [ok |-> FALSE, ts |-> NoTimeSignature, err |-> e]

\* TimeSignature::validate
validate(numerator, denominator) ==
    IF numerator < 2 \/ numerator > 15 THEN FALSE
    ELSE IF denominator # 4 /\ denominator # 8 /\ denominator # 2
            /\ denominator # 16 THEN FALSE
    ELSE TRUE

\* TimeSignature::new
TimeSignature_new(numerator, denominator) ==
    IF ~validate(numerator, denominator) THEN TsErr("InvalidTimeSignature")
    ELSE TsOk([numerator |-> numerator, denominator |-> denominator,
               accents |-> default_for_beats(numerator)])

\* TimeSignature::with_accents
TimeSignature_with_accents(numerator, denominator, accents) ==
    IF ~validate(numerator, denominator) THEN TsErr("InvalidTimeSignature")
    ELSE TsOk([numerator |-> numerator, denominator |-> denominator,
               accents |-> IF Len(accents) # numerator
                           THEN default_for_beats(numerator)
                           ELSE accents])

\* TimeSignature::common
TimeSignature_common == TimeSignature_new(4, 4).ts

\* set_accents without the length check
set_accents_unchecked(ts, accents) == [ts EXCEPT !.accents = accents]

\* set_accents with the fallback of with_accents
set_accents_falling_back(ts, accents) ==
    [ts EXCEPT !.accents = IF Len(accents) = ts.numerator THEN accents
                           ELSE default_for_beats(ts.numerator)]

\* TimeSignature::set_accents
TimeSignature_set_accents(ts, accents) ==
    IF Len(accents) = ts.numerator THEN [ts EXCEPT !.accents = accents] ELSE ts

\* str::split('/'): the parts of a text between its slashes
RECURSIVE split_slash(_, _, _)
split_slash(text, i, part) ==
    IF i > Len(text) THEN <<part>>
    ELSE IF text[i] = "/" THEN <<part>> \o split_slash(text, i + 1, <<>>)
    ELSE split_slash(text, i + 1, Append(part, text[i]))

\* str::trim
RECURSIVE trim_start(_)
trim_start(text) ==
    IF Len(text) > 0 /\ Head(text) = " " THEN trim_start(Tail(text)) ELSE text
RECURSIVE trim_end(_)
trim_end(text) ==
    IF Len(text) > 0 /\ text[Len(text)] = " "
    THEN trim_end(SubSeq(text, 1, Len(text) - 1)) ELSE text
trim(text) == trim_end(trim_start(text))

Digits == <<"0", "1", "2", "3", "4", "5", "6", "7", "8", "9">>
IsDigit(c) == \E v \in 1..10 : Digits[v] = c
DigitValue(c) == (CHOOSE v \in 1..10 : Digits[v] = c) - 1

RECURSIVE decimal_value(_, _)
decimal_value(digits, acc) ==
    IF digits = <<>> THEN acc
    ELSE decimal_value(Tail(digits), acc * 10 + DigitValue(Head(digits)))

U8_MAX == 255

\* str::parse::<u8>: an optional "+", then digits, the value at most 255;
\* -1 for an error
parse_u8(text) ==
    LET digits == IF Len(text) > 0 /\ Head(text) = "+" THEN Tail(text) ELSE text
    IN IF digits = <<>> THEN -1
       ELSE IF \E i \in 1..Len(digits) : ~IsDigit(digits[i]) THEN -1
       ELSE IF decimal_value(digits, 0) > U8_MAX THEN -1
       ELSE decimal_value(digits, 0)

\* TimeSignature::parse
TimeSignature_parse(text) ==
    LET parts == split_slash(text, 1, <<>>)
        numerator == parse_u8(trim(parts[1]))
        denominator == parse_u8(trim(parts[2]))
    IN IF Len(parts) # 2 THEN TsErr("ParseError")
       ELSE IF numerator = -1 THEN TsErr("ParseError")
       ELSE IF denominator = -1 THEN TsErr("ParseError")
       ELSE TimeSignature_new(numerator, denominator)

----------------------------------------------------------------------------
(* note.rs, transpose.rs: notes and their transposition *)

Min(a, b) == IF a < b THEN a ELSE b

\* Note::new
Note_new(pitch, start_tick, duration_ticks) ==
    [pitch |-> pitch, start_tick |-> start_tick,
     duration_ticks |-> duration_ticks, velocity |-> 100, voice |-> 0]

\* Note::with_velocity
Note_with_velocity(pitch, start_tick, duration_ticks, velocity) ==
    [pitch |-> pitch, start_tick |-> start_tick,
     duration_ticks |-> duration_ticks, velocity |-> Min(velocity, 127),
     voice |-> 0]

\* TransposeMode::chromatic
TransposeMode_chromatic(semitones) ==
    [kind |-> "Chromatic", semitones |-> semitones, degrees |-> 0,
     source_scale |-> c_major, target_scale |-> c_major]

\* TransposeMode::diatonic_with_key_change
TransposeMode_diatonic_with_key_change(source, target, degrees) ==
    [kind |-> "Diatonic", semitones |-> 0, degrees |-> degrees,
     source_scale |-> source, target_scale |-> target]

\* TransposeMode::diatonic
TransposeMode_diatonic(scale, degrees) ==
    TransposeMode_diatonic_with_key_change(scale, scale, degrees)

NoteOk(n) == [ok |-> TRUE, note |-> n, err |-> "none"]
NoteErr(e) == [ok |-> FALSE, note |-> Note_new(0, 0, 0), err |-> e]

\* transpose_note: the Note literal names pitch, start_tick, duration_ticks
\* and velocity; voice is left at its default
\* The same with the velocity of Note::new in place of the note's
transposed_note_default_velocity(note, pitch, new_pitch) ==
    IF ~pitch.ok THEN NoteErr(pitch.err)
    ELSE IF ~new_pitch.ok THEN NoteErr(new_pitch.err)
    ELSE NoteOk(Note_new(new_pitch.midi, note.start_tick, note.duration_ticks))

transposed_note(note, pitch, new_pitch) ==
    IF ~pitch.ok THEN NoteErr(pitch.err)
    ELSE IF ~new_pitch.ok THEN NoteErr(new_pitch.err)
    ELSE NoteOk([pitch |-> new_pitch.midi, start_tick |-> note.start_tick,
                 duration_ticks |-> note.duration_ticks,
                 velocity |-> note.velocity, voice |-> 0])

transpose_note(note, mode, overflow_checks) ==
    transposed_note(note, Pitch_from_midi(note.pitch),
        IF mode.kind = "Chromatic"
        THEN transpose_pitch_chromatic(note.pitch, mode.semitones)
        ELSE transpose_pitch_diatonic(note.pitch, mode.source_scale,
                 mode.target_scale, mode.degrees, overflow_checks))

NotesOk(ns) == [ok |-> TRUE, notes |-> ns, err |-> "none"]
NotesErr(e) == [ok |-> FALSE, notes |-> <<>>, err |-> e]

\* The per-note results with the failures skipped (filter_map(Result::ok))
kept(rs) == SelectSeq(rs, LAMBDA r : r.ok)
collect_skipping(rs) == NotesOk([i \in 1..Len(kept(rs)) |-> kept(rs)[i].note])

\* collect::<Result<Vec<_>>>() of the per-note results: the first failure
\* ends the iteration and is the result
collect(rs) ==
    IF \A i \in 1..Len(rs) : rs[i].ok
    THEN NotesOk([i \in 1..Len(rs) |-> rs[i].note])
    ELSE NotesErr(rs[CHOOSE i \in 1..Len(rs) :
                        ~rs[i].ok /\ \A j \in 1..(i - 1) : rs[j].ok].err)

\* transpose_notes
transpose_notes(notes, mode, overflow_checks) ==
    collect([i \in 1..Len(notes) |-> transpose_note(notes[i], mode, overflow_checks)])

----------------------------------------------------------------------------
(* song.rs: the Score.  A timestamp is the clock's seconds followed by "Z". *)

\* The outcome of a fallible call that yields or changes a song
Outcome(s, ok, err) == [song |-> s, ok |-> ok, err |-> err]

\* chrono_lite_now: format!("{}Z", secs)
chrono_lite_now(clock) == <<clock, "Z">>

\* Song::new (SongMetadata::default, SongSettings::default)
Song_new(clock) ==
    [version |-> "1.0",
     title |-> "Untitled", composer |-> "",
     created |-> chrono_lite_now(clock), modified |-> chrono_lite_now(clock),
     tempo |-> 120, time_signature |-> TimeSignature_common, key |-> c_major,
     notes |-> <<>>]

\* Song::with_title
Song_with_title(title, clock) == [Song_new(clock) EXCEPT !.title = title]

\* u16::clamp(20, 300)
clamp(v, lo, hi) == IF v < lo THEN lo ELSE IF v > hi THEN hi ELSE v

\* Song::set_tempo
Song_set_tempo(s, tempo) == [s EXCEPT !.tempo = clamp(tempo, 20, 300)]

\* Song::set_key
Song_set_key(s, key) == [s EXCEPT !.key = key]

\* Song::sort_notes: a stable sort by start_tick
RECURSIVE insert_by_start(_, _)
insert_by_start(sorted, note) ==
    IF sorted = <<>> THEN <<note>>
    ELSE IF sorted[Len(sorted)].start_tick <= note.start_tick
         THEN Append(sorted, note)
         ELSE Append(insert_by_start(SubSeq(sorted, 1, Len(sorted) - 1), note),
                     sorted[Len(sorted)])

RECURSIVE sort_by_start(_, _)
sort_by_start(notes, acc) ==
    IF notes = <<>> THEN acc
    ELSE sort_by_start(Tail(notes), insert_by_start(acc, Head(notes)))

sort_notes_skipped(s) == s
sort_notes(s) == [s EXCEPT !.notes = sort_by_start(s.notes, <<>>)]

\* Song::update_modified
update_modified(s, clock) == [s EXCEPT !.modified = chrono_lite_now(clock)]

\* Song::add_note
Song_add_note(s, note, clock) ==
    update_modified(sort_notes([s EXCEPT !.notes = Append(s.notes, note)]), clock)

\* Song::add_notes
Song_add_notes(s, notes, clock) ==
    update_modified(sort_notes([s EXCEPT !.notes = s.notes \o notes]), clock)

\* Vec::remove(index), index 0-based and in range
remove_at(seq, index) ==
    SubSeq(seq, 1, index) \o SubSeq(seq, index + 2, Len(seq))

\* Song::remove_note
Song_remove_note(s, index, clock) ==
    IF index < Len(s.notes)
    THEN update_modified([s EXCEPT !.notes = remove_at(s.notes, index)], clock)
    ELSE s

\* Song::clear_notes
Song_clear_notes(s, clock) == update_modified([s EXCEPT !.notes = <<>>], clock)


U16_MAX == 65535

\* The document of the persisted format: `syntax` tells whether the text is
\* JSON at all, `value` is the object it denotes
Document(json_version, metadata, settings, notes) ==
    [syntax |-> "json",
     value |-> [version |-> json_version, metadata |-> metadata,
                settings |-> settings, notes |-> notes]]
NotJson == [Document("", [title |-> "", composer |-> "", created |-> <<0, "Z">>,
                          modified |-> <<0, "Z">>],
                     [tempo |-> 0, time_signature |-> TimeSignature_common,
                      key |-> c_major], <<>>)
            EXCEPT !.syntax = "text"]

\* Song::from_json: serde_json::from_str of the derived Deserialize; tempo is
\* a u16, and no field is validated beyond its type
Song_from_json(json) ==
    IF json.syntax # "json" THEN Outcome(Song_new(0), FALSE, "JsonError")
    ELSE IF json.value.settings.tempo < 0 \/ json.value.settings.tempo > U16_MAX
    THEN Outcome(Song_new(0), FALSE, "JsonError")
    ELSE Outcome([version |-> json.value.version,
                  title |-> json.value.metadata.title,
                  composer |-> json.value.metadata.composer,
                  created |-> json.value.metadata.created,
                  modified |-> json.value.metadata.modified,
                  tempo |-> json.value.settings.tempo,
                  time_signature |-> json.value.settings.time_signature,
                  key |-> json.value.settings.key,
                  notes |-> json.value.notes], TRUE, "none")

\* A writer that leaves the voices out, which read back as the default 0
Song_to_json_without_voice(s) ==
    Document(s.version,
             [title |-> s.title, composer |-> s.composer,
              created |-> s.created, modified |-> s.modified],
             [tempo |-> s.tempo, time_signature |-> s.time_signature,
              key |-> s.key],
             [i \in 1..Len(s.notes) |-> [s.notes[i] EXCEPT !.voice = 0]])

\* Song::to_json: serde_json::to_string_pretty of the derived Serialize
\* writes every field of the song under its name, the notes in their order
Song_to_json(s) ==
    Document(s.version,
             [title |-> s.title, composer |-> s.composer,
              created |-> s.created, modified |-> s.modified],
             [tempo |-> s.tempo, time_signature |-> s.time_signature,
              key |-> s.key],
             s.notes)

\* Song::load: `files` maps the paths that can be read to their contents
Song_load(files, path) ==
    IF path \notin DOMAIN files THEN Outcome(Song_new(0), FALSE, "FileError")
    ELSE Song_from_json(files[path])

----------------------------------------------------------------------------
(* Parsing of key names (pitch.rs, scale.rs).  A key text is modelled after *)
(* its split at the first space: [root, scale], scale "" when absent; the   *)
(* names are taken as already case-folded.                                  *)

\* PitchClass::parse (the ASCII spellings); -1 for an error
PitchClass_parse(text) ==
    CASE text = "C" -> 0
      [] text \in {"C#", "CS", "DB"} -> 1
      [] text = "D" -> 2
      [] text \in {"D#", "DS", "EB"} -> 3
      [] text = "E" -> 4
      [] text = "F" -> 5
      [] text \in {"F#", "FS", "GB"} -> 6
      [] text = "G" -> 7
      [] text \in {"G#", "GS", "AB"} -> 8
      [] text = "A" -> 9
      [] text \in {"A#", "AS", "BB"} -> 10
      [] text = "B" -> 11
      [] OTHER -> -1

\* ScaleType::parse; "" for an error
ScaleType_parse(text) ==
    CASE text \in {"major", "maj", "ionian"} -> "Major"
      [] text \in {"minor", "min", "natural minor", "natural_minor", "aeolian"}
            -> "NaturalMinor"
      [] text \in {"harmonic minor", "harmonic_minor", "harm"} -> "HarmonicMinor"
      [] text \in {"melodic minor", "melodic_minor", "mel"} -> "MelodicMinor"
      [] text \in {"dorian", "dor"} -> "Dorian"
      [] text \in {"phrygian", "phryg"} -> "Phrygian"
      [] text \in {"lydian", "lyd"} -> "Lydian"
      [] text \in {"mixolydian", "mixo"} -> "Mixolydian"
      [] text \in {"locrian", "loc"} -> "Locrian"
      [] OTHER -> ""

ScaleOk(sc) == [ok |-> TRUE, scale |-> sc, err |-> "none"]
ScaleErr(e) == [ok |-> FALSE, scale |-> c_major, err |-> e]

\* Scale::parse
Scale_parse(key) ==
    IF PitchClass_parse(key.root) = -1 THEN ScaleErr("InvalidPitch")
    ELSE IF key.scale = "" THEN ScaleOk(Scale_new(PitchClass_parse(key.root), "Major"))
    ELSE IF ScaleType_parse(key.scale) = "" THEN ScaleErr("InvalidScale")
    ELSE ScaleOk(Scale_new(PitchClass_parse(key.root), ScaleType_parse(key.scale)))

----------------------------------------------------------------------------
(* wasm.rs: the Mozart wrapper's transpositions of the whole score.  Each   *)
(* returns the song after the call and the call's outcome.                  *)

\* `let transposed = transpose_notes(..)?; self.song.notes = transposed;`
assign(s, transposed) ==
    IF ~transposed.ok THEN Outcome(s, FALSE, transposed.err)
    ELSE Outcome([s EXCEPT !.notes = transposed.notes], TRUE, "none")

assign_transposed(s, mode, overflow_checks) ==
    assign(s, transpose_notes(s.notes, mode, overflow_checks))

\* Mozart::transpose_chromatic
Mozart_transpose_chromatic(s, semitones, overflow_checks) ==
    assign_transposed(s, TransposeMode_chromatic(semitones), overflow_checks)

\* Mozart::transpose_diatonic
Mozart_transpose_diatonic(s, degrees, overflow_checks) ==
    assign_transposed(s, TransposeMode_diatonic(s.key, degrees), overflow_checks)

\* Mozart::transpose_diatonic_with_key_change
\* `let target_scale = Scale::parse(..)?; ..; self.song.set_key(target_scale);`
with_key_change(s, target_scale, done) ==
    IF ~target_scale.ok THEN Outcome(s, FALSE, target_scale.err)
    ELSE IF ~done.ok THEN done
    ELSE Outcome(Song_set_key(done.song, target_scale.scale), TRUE, "none")

Mozart_transpose_diatonic_with_key_change(s, target_key, degrees, overflow_checks) ==
    with_key_change(s, Scale_parse(target_key),
        assign_transposed(s,
            TransposeMode_diatonic_with_key_change(s.key,
                Scale_parse(target_key).scale, degrees), overflow_checks))

----------------------------------------------------------------------------
(* src-tauri/src/lib.rs: the command layer's history and its transpose     *)
(* command.                                                                 *)

UNDO_LIMIT == 50

\* A history that is never trimmed
unlimited_history(stack) == stack

\* `while stack.len() > 50 { stack.remove(0); }`
RECURSIVE limit_history(_)
limit_history(stack) ==
    IF Len(stack) > UNDO_LIMIT THEN limit_history(Tail(stack)) ELSE stack

\* AppState::push_undo: the undo stack afterwards (the redo stack is cleared)
push_undo(stack, s) == limit_history(Append(stack, s))

\* The mode a TransposeRequest asks for, or the error of parsing its target
request_mode(current_key, request) ==
    IF request.type = "Chromatic"
    THEN [ok |-> TRUE, err |-> "none",
          mode |-> TransposeMode_chromatic(request.semitones)]
    ELSE IF request.type = "Diatonic"
    THEN [ok |-> TRUE, err |-> "none",
          mode |-> TransposeMode_diatonic(current_key, request.degrees)]
    ELSE IF PitchClass_parse(request.target_root) = -1
    THEN [ok |-> FALSE, err |-> "InvalidPitch", mode |-> TransposeMode_chromatic(0)]
    ELSE IF ScaleType_parse(request.target_scale_type) = ""
    THEN [ok |-> FALSE, err |-> "InvalidScale", mode |-> TransposeMode_chromatic(0)]
    ELSE [ok |-> TRUE, err |-> "none",
          mode |-> TransposeMode_diatonic_with_key_change(current_key,
                      Scale_new(PitchClass_parse(request.target_root),
                                ScaleType_parse(request.target_scale_type)),
                      request.degrees)]

\* The transpose command's effect on the song (after its push_undo)
command_result(s, m, done) ==
    IF ~m.ok THEN Outcome(s, FALSE, m.err)
    ELSE IF ~done.ok THEN done
    ELSE IF m.mode.kind = "Diatonic"
         THEN Outcome([done.song EXCEPT !.key = m.mode.target_scale], TRUE, "none")
         ELSE done

command_transpose(s, request, overflow_checks) ==
    command_result(s, request_mode(s.key, request),
        assign_transposed(s, request_mode(s.key, request).mode, overflow_checks))

----------------------------------------------------------------------------
(* Transposition of one pitch: the inputs are drawn in the initial state,  *)
(* the actions call the two functions.                                     *)

MaxDegrees == 7
MaxNotes == 2
MaxOps == 3
MaxTime == 1

\* The values of the variables a specification does not use
NoCall ==
    [op |-> "none", ok |-> TRUE, err |-> "none", before |-> Song_new(0),
     mode |-> TransposeMode_chromatic(0), parsed |-> TRUE]

TIdle ==
    /\ t_pitch = 0
    /\ t_source = c_major
    /\ t_target = c_major
    /\ t_degrees = 0
    /\ t_semitones = 0
    /\ t_result = NotCalled
    /\ t_chromatic = NotCalled

SIdle ==
    /\ song = Song_new(0)
    /\ now = 0
    /\ s_last = NoCall
    /\ s_mutated_at = 0
    /\ s_ops = 0

AIdle ==
    /\ undo_stack = <<>>
    /\ redo_stack = <<>>

NoTsCall ==
    [op |-> "none", ok |-> TRUE, numerator |-> 0, denominator |-> 0,
     accents |-> <<>>, index |-> 0, before |-> TimeSignature_common]

MIdle ==
    /\ meter = TimeSignature_common
    /\ meter_last = NoTsCall

\* No thread runs a command and no lock is held
NoThreads == <<>>
NoLocks == [undo_stack |-> 0, redo_stack |-> 0]

KIdle ==
    /\ locks = NoLocks
    /\ threads = NoThreads

\* No call made: `called` tells whether `value` is a call's result
NotMade == [called |-> FALSE, value |-> 0]
Returned(v) == [called |-> TRUE, value |-> v]

FIdle ==
    /\ call = [none |-> 0]
    /\ result = NotMade

\* Requests within one scale: every degrees value up to MaxDegrees, paired
\* with a chromatic transposition of the same pitch by whole octaves.
WithinScaleRequests ==
    {<<d, 12 * TruncDiv(d, 7)>> : d \in (-MaxDegrees)..MaxDegrees}

TInit ==
    /\ t_pitch \in 0..MIDI_MAX
    /\ t_source \in Scales
    /\ t_target = t_source
    /\ t_degrees = 0
    /\ t_semitones = 0
    /\ t_result = NotCalled
    /\ t_chromatic = NotCalled
    /\ SIdle /\ AIdle /\ MIdle /\ KIdle /\ FIdle

\* transpose_pitch_diatonic(pitch, S, S, d) and
\* transpose_pitch_chromatic(pitch, s) on the same pitch
TransposeWithinScale ==
    /\ t_result = NotCalled
    /\ \E req \in WithinScaleRequests, oc \in BOOLEAN :
          /\ t_degrees' = req[1]
          /\ t_semitones' = req[2]
          /\ t_result' = transpose_pitch_diatonic(t_pitch, t_source, t_source,
                                                  req[1], oc)
          /\ t_chromatic' = transpose_pitch_chromatic(t_pitch, req[2])
    /\ UNCHANGED <<t_pitch, t_source, t_target, svars, avars, mvars, kvars, fvars>>

TNext == TransposeWithinScale

SpecTranspose == TInit /\ [][TNext]_vars

\* Requests with a key change: a sample of target scales (the source scale
\* and the scale a fifth above it) and of degrees values over the i8 range.
KeyChangeTargets(source) ==
    {source,
     Scale_new(PitchClass_transpose(source.root, 7), source.scale_type)}

KeyChangeDegrees == {I8_MIN, -8, -1, 0, 2, 8, I8_MAX}

\* transpose_pitch_diatonic(pitch, source, target, d)
TransposeKeyChange ==
    /\ t_result = NotCalled
    /\ \E target \in KeyChangeTargets(t_source), d \in KeyChangeDegrees,
          oc \in BOOLEAN :
          /\ t_target' = target
          /\ t_degrees' = d
          /\ t_result' = transpose_pitch_diatonic(t_pitch, t_source, target, d, oc)
    /\ UNCHANGED <<t_pitch, t_source, t_semitones, t_chromatic, svars, avars,
                   mvars, kvars, fvars>>

KNext == TransposeKeyChange

SpecKeyChange == TInit /\ [][KNext]_vars

----------------------------------------------------------------------------
(* The Score: a new empty song, then calls of the Song methods, of the      *)
(* Mozart wrapper's transpositions and of the command layer's transpose.    *)

NotePitches == {60, 127, 200}
StartTicks == {0, 480}
NoteInputs ==
    {Note_new(p, st, 480) : p \in NotePitches, st \in StartTicks}
        \cup {Note_with_velocity(64, 0, 240, 90)}
NoteLists ==
    {<<Note_new(60, 480, 480), Note_new(71, 0, 240)>>,
     <<Note_with_velocity(61, 0, 480, 200)>>}
SemitoneInputs == {-12, 1}
DegreeInputs == {1, I8_MAX}
KeyTexts == {[root |-> "G", scale |-> "major"], [root |-> "A", scale |-> "min"],
             [root |-> "H", scale |-> "major"], [root |-> "D", scale |-> "blues"]}
TransposeRequests ==
    {[type |-> "Chromatic", semitones |-> 1, degrees |-> 0,
      target_root |-> "", target_scale_type |-> ""],
     [type |-> "Diatonic", semitones |-> 0, degrees |-> 1,
      target_root |-> "", target_scale_type |-> ""],
     [type |-> "DiatonicWithKeyChange", semitones |-> 0, degrees |-> 0,
      target_root |-> "G", target_scale_type |-> "major"],
     [type |-> "DiatonicWithKeyChange", semitones |-> 0, degrees |-> 0,
      target_root |-> "G", target_scale_type |-> "blues"]}

SInit == TIdle /\ SIdle /\ AIdle /\ MIdle /\ KIdle /\ FIdle

\* The clock advances
Tick ==
    /\ now < MaxTime
    /\ now' = now + 1
    /\ UNCHANGED <<song, s_last, s_mutated_at, s_ops, tvars, avars, mvars, kvars, fvars>>

\* Bookkeeping of one call with outcome r: the song after it, what is
\* remembered of it, and the time of the last call that changed the score's
\* notes
Call(op, r, mode, parsed) ==
    /\ s_ops < MaxOps
    /\ s_ops' = s_ops + 1
    /\ song' = r.song
    /\ s_last' = [op |-> op, ok |-> r.ok, err |-> r.err, before |-> song,
                  mode |-> mode, parsed |-> parsed]
    /\ s_mutated_at' = IF r.song.notes # song.notes THEN now ELSE s_mutated_at
    /\ UNCHANGED <<now, tvars, mvars, kvars, fvars>>

NoMode == TransposeMode_chromatic(0)

\* Song::add_note (Mozart::add_note, Mozart::add_note_with_velocity)
add_note ==
    /\ Len(song.notes) < MaxNotes
    /\ \E note \in NoteInputs :
          Call("add_note", Outcome(Song_add_note(song, note, now), TRUE, "none"),
               NoMode, TRUE)
    /\ UNCHANGED avars

\* Song::add_notes (Mozart::parse_melody_str)
add_notes ==
    /\ \E notes \in NoteLists :
          /\ Len(song.notes) + Len(notes) <= MaxNotes
          /\ Call("add_notes",
                  Outcome(Song_add_notes(song, notes, now), TRUE, "none"),
                  NoMode, TRUE)
    /\ UNCHANGED avars

\* Song::remove_note (Mozart::remove_note)
remove_note ==
    /\ \E index \in 0..MaxNotes :
          Call("remove_note",
               Outcome(Song_remove_note(song, index, now),
                       index < Len(song.notes), "none"),
               NoMode, TRUE)
    /\ UNCHANGED avars

\* Song::clear_notes (Mozart::clear_notes)
clear_notes ==
    /\ Call("clear_notes", Outcome(Song_clear_notes(song, now), TRUE, "none"),
            NoMode, TRUE)
    /\ UNCHANGED avars

\* Mozart::transpose_chromatic
transpose_chromatic ==
    /\ \E semitones \in SemitoneInputs, oc \in BOOLEAN :
          Call("transpose_chromatic",
               Mozart_transpose_chromatic(song, semitones, oc),
               TransposeMode_chromatic(semitones), TRUE)
    /\ UNCHANGED avars

\* Mozart::transpose_diatonic
transpose_diatonic ==
    /\ \E degrees \in DegreeInputs, oc \in BOOLEAN :
          Call("transpose_diatonic",
               Mozart_transpose_diatonic(song, degrees, oc),
               TransposeMode_diatonic(song.key, degrees), TRUE)
    /\ UNCHANGED avars

\* Mozart::transpose_diatonic_with_key_change
transpose_diatonic_with_key_change ==
    /\ \E key \in KeyTexts, degrees \in DegreeInputs, oc \in BOOLEAN :
          Call("transpose_diatonic_with_key_change",
               Mozart_transpose_diatonic_with_key_change(song, key, degrees, oc),
               TransposeMode_diatonic_with_key_change(song.key,
                   Scale_parse(key).scale, degrees),
               Scale_parse(key).ok)
    /\ UNCHANGED avars

\* The command layer's transpose: push_undo, then the transposition
transpose ==
    /\ \E request \in TransposeRequests, oc \in BOOLEAN :
          Call("transpose", command_transpose(song, request, oc),
               request_mode(song.key, request).mode,
               request_mode(song.key, request).ok)
    /\ undo_stack' = push_undo(undo_stack, song)
    /\ redo_stack' = <<>>

SNext ==
    \/ Tick
    \/ add_note
    \/ add_notes
    \/ remove_note
    \/ clear_notes
    \/ transpose_chromatic
    \/ transpose_diatonic
    \/ transpose_diatonic_with_key_change
    \/ transpose

SpecSong == SInit /\ [][SNext]_vars

----------------------------------------------------------------------------
(* Scores as they are made and loaded: Song::new, Song::with_title,        *)
(* Song::set_tempo, Song::from_json and Song::load.                         *)

Titles == {"Untitled", "Etude"}
TempoInputs == {0, 19, 20, 120, 300, 301, U16_MAX}
DocumentTempos == {0, 90, 500, U16_MAX + 1}

\* A document as Song::to_json writes it, but for its tempo
DocumentWithTempo(tempo) ==
    Document("1.0",
             [title |-> "Etude", composer |-> "", created |-> <<0, "Z">>,
              modified |-> <<0, "Z">>],
             [tempo |-> tempo, time_signature |-> TimeSignature_common,
              key |-> a_minor],
             <<Note_new(69, 0, 480)>>)

Documents == {DocumentWithTempo(t) : t \in DocumentTempos} \cup {NotJson}

\* The files that exist
Files ==
    [p \in {"slow.mozart.json", "fast.mozart.json", "notes.txt"} |->
        CASE p = "slow.mozart.json" -> DocumentWithTempo(40)
          [] p = "fast.mozart.json" -> DocumentWithTempo(1000)
          [] p = "notes.txt" -> NotJson]
Paths == DOMAIN Files \cup {"missing.mozart.json"}

LInit == TIdle /\ SIdle /\ AIdle /\ MIdle /\ KIdle /\ FIdle

\* What a call leaves behind: a fallible call that fails leaves the score
Made(op, r) ==
    /\ song' = IF r.ok THEN r.song ELSE song
    /\ s_last' = [NoCall EXCEPT !.op = op, !.ok = r.ok, !.err = r.err]

\* Song::new
new_song ==
    /\ Made("new", Outcome(Song_new(now), TRUE, "none"))
    /\ UNCHANGED <<now, s_mutated_at, s_ops, tvars, avars, mvars, kvars, fvars>>

\* Song::with_title
with_title ==
    /\ \E title \in Titles :
          Made("with_title", Outcome(Song_with_title(title, now), TRUE, "none"))
    /\ UNCHANGED <<now, s_mutated_at, s_ops, tvars, avars, mvars, kvars, fvars>>

\* Song::set_tempo
set_tempo ==
    /\ \E tempo \in TempoInputs :
          Made("set_tempo", Outcome(Song_set_tempo(song, tempo), TRUE, "none"))
    /\ UNCHANGED <<now, s_mutated_at, s_ops, tvars, avars, mvars, kvars, fvars>>

\* Song::from_json
from_json ==
    /\ \E json \in Documents : Made("from_json", Song_from_json(json))
    /\ UNCHANGED <<now, s_mutated_at, s_ops, tvars, avars, mvars, kvars, fvars>>

\* Song::load
load ==
    /\ \E path \in Paths : Made("load", Song_load(Files, path))
    /\ UNCHANGED <<now, s_mutated_at, s_ops, tvars, avars, mvars, kvars, fvars>>

LNext ==
    \/ Tick
    \/ new_song
    \/ with_title
    \/ set_tempo
    \/ from_json
    \/ load

SpecLoad == LInit /\ [][LNext]_vars

----------------------------------------------------------------------------
(* A time signature: its constructors, then set_accents and the accent     *)
(* pattern's cycle and set.                                                 *)

MaxNumerator == 3

NumeratorInputs == {1, 16} \cup 2..MaxNumerator
DenominatorInputs == {3, 4}

\* Patterns of every length up to one more than MaxNumerator
PatternInputs ==
    UNION {{[i \in 1..n |-> Medium],
            [i \in 1..n |-> IF i % 2 = 1 THEN Weak ELSE Strong]} :
           n \in 0..(MaxNumerator + 1)}

ParseTexts ==
    {<<"3", "/", "4">>, <<" ", "2", " ", "/", " ", "4", " ">>,
     <<"1", "/", "4">>, <<"1", "6", "/", "4">>, <<"3", "/", "3">>,
     <<"3", "4">>, <<"3", "/", "4", "/", "4">>, <<"x", "/", "4">>,
     <<"2", "5", "6", "/", "4">>, <<>>}

MInit == TIdle /\ SIdle /\ AIdle /\ MIdle /\ KIdle /\ FIdle

\* What a constructor leaves behind: a failing one leaves the time signature
Constructed(op, r, numerator, denominator, accents) ==
    /\ meter' = IF r.ok THEN r.ts ELSE meter
    /\ meter_last' = [op |-> op, ok |-> r.ok, numerator |-> numerator,
                      denominator |-> denominator, accents |-> accents,
                      index |-> 0, before |-> meter]

\* What a method without a result leaves behind
Updated(op, after, accents, index) ==
    /\ meter' = after
    /\ meter_last' = [op |-> op, ok |-> TRUE, numerator |-> meter.numerator,
                      denominator |-> meter.denominator, accents |-> accents,
                      index |-> index, before |-> meter]

\* TimeSignature::new
new ==
    /\ \E n \in NumeratorInputs, d \in DenominatorInputs :
          Constructed("new", TimeSignature_new(n, d), n, d, <<>>)
    /\ UNCHANGED <<tvars, svars, avars, fvars, kvars>>

\* TimeSignature::with_accents
with_accents ==
    /\ \E n \in NumeratorInputs, d \in DenominatorInputs,
          accents \in PatternInputs :
          Constructed("with_accents", TimeSignature_with_accents(n, d, accents),
                      n, d, accents)
    /\ UNCHANGED <<tvars, svars, avars, fvars, kvars>>

\* TimeSignature::parse
parse ==
    /\ \E text \in ParseTexts :
          Constructed("parse", TimeSignature_parse(text), 0, 0, <<>>)
    /\ UNCHANGED <<tvars, svars, avars, fvars, kvars>>

\* TimeSignature::set_accents
set_accents ==
    /\ \E accents \in PatternInputs :
          Updated("set_accents", TimeSignature_set_accents(meter, accents),
                  accents, 0)
    /\ UNCHANGED <<tvars, svars, avars, fvars, kvars>>

\* accents.cycle(beat)
cycle ==
    /\ \E beat \in 0..MaxNumerator :
          Updated("cycle",
                  [meter EXCEPT !.accents =
                      AccentPattern_cycle(meter.accents, beat)],
                  <<>>, beat)
    /\ UNCHANGED <<tvars, svars, avars, fvars, kvars>>

\* accents.set(beat, level)
set ==
    /\ \E beat \in 0..MaxNumerator, level \in AccentLevels :
          Updated("set",
                  [meter EXCEPT !.accents =
                      AccentPattern_set(meter.accents, beat, level)],
                  <<>>, beat)
    /\ UNCHANGED <<tvars, svars, avars, fvars, kvars>>

MNext ==
    \/ new
    \/ with_accents
    \/ parse
    \/ set_accents
    \/ cycle
    \/ set

SpecTime == MInit /\ [][MNext]_vars

----------------------------------------------------------------------------
(* Pitch classes and pitches: one call of PitchClass::transpose followed   *)
(* by the transposition back, and one call of Pitch::new.                   *)

I8 == I8_MIN..I8_MAX

PInit ==
    /\ call \in [pitch_class : PitchClasses, n : I8]
    /\ result = NotMade
    /\ TIdle /\ SIdle /\ AIdle /\ MIdle /\ KIdle

\* pc.transpose(n).transpose(-n): `there` is the first result, `back` the
\* second; the second call is made when -n is an i8, which it is not for
\* i8::MIN
TransposeThereAndBack ==
    /\ ~result.called
    /\ result' = Returned(
          [there |-> PitchClass_transpose(call.pitch_class, call.n),
           back |-> IF InI8(-call.n)
                    THEN Ok(PitchClass_transpose(
                              PitchClass_transpose(call.pitch_class, call.n),
                              -call.n))
                    ELSE NotCalled])
    /\ UNCHANGED <<call, tvars, svars, avars, mvars, kvars>>

PNext == TransposeThereAndBack

SpecPitchClass == PInit /\ [][PNext]_vars

NInit ==
    /\ call \in [pitch_class : PitchClasses, octave : I8]
    /\ result = NotMade
    /\ TIdle /\ SIdle /\ AIdle /\ MIdle /\ KIdle

\* Pitch::new(pitch_class, octave)
NewPitch ==
    /\ ~result.called
    /\ \E oc \in BOOLEAN :
          result' = Returned(Pitch_new(call.pitch_class, call.octave, oc))
    /\ UNCHANGED <<call, tvars, svars, avars, mvars, kvars>>

NNext == NewPitch

SpecPitchNew == NInit /\ [][NNext]_vars

-----------------------------------------------------------------------------
(* Beats of a time signature (time.rs): one call of beat_at_tick and of     *)
(* accent_at_tick on a constructed time signature.                          *)

TICKS_PER_QUARTER == 480

\* TimeSignature::ticks_per_beat
ticks_per_beat(time_signature) ==
    CASE time_signature.denominator = 2 -> TICKS_PER_QUARTER * 2
      [] time_signature.denominator = 4 -> TICKS_PER_QUARTER
      [] time_signature.denominator = 8 -> TruncDiv(TICKS_PER_QUARTER, 2)
      [] time_signature.denominator = 16 -> TruncDiv(TICKS_PER_QUARTER, 4)
      [] OTHER -> TICKS_PER_QUARTER

\* TimeSignature::ticks_per_measure
ticks_per_measure(time_signature) ==
    ticks_per_beat(time_signature) * time_signature.numerator

\* beat_at_tick without the reduction to one measure
beat_at_tick_unreduced(time_signature, tick) ==
    TruncDiv(tick, ticks_per_beat(time_signature))

\* TimeSignature::beat_at_tick
beat_at_tick(time_signature, tick) ==
    TruncDiv(TruncRem(tick, ticks_per_measure(time_signature)),
             ticks_per_beat(time_signature))

\* AccentPattern::get: Weak outside the pattern
AccentPattern_get(accents, beat) ==
    IF beat < Len(accents) THEN accents[beat + 1] ELSE Weak

\* TimeSignature::accent_at_tick
accent_at_tick(time_signature, tick) ==
    AccentPattern_get(time_signature.accents,
                      beat_at_tick(time_signature, tick))

MaxBeatSteps == 130
BeatStep == TICKS_PER_QUARTER \div 4
LateTick == 1073741824

\* Ticks on the sixteenth-note grid and just below it, from the start of the
\* score and from late in the u32 range
TickInputs ==
    UNION {{BeatStep * k, BeatStep * k + BeatStep - 1,
            LateTick + BeatStep * k} : k \in 0..MaxBeatSteps}

BInit ==
    /\ call \in [numerator : 2..15, denominator : {2, 4, 8, 16},
                 tick : TickInputs]
    /\ result = NotMade
    /\ TIdle /\ SIdle /\ AIdle /\ MIdle /\ KIdle

\* The time signature of the call
BeatSignature == TimeSignature_new(call.numerator, call.denominator).ts

\* beat_at_tick(t), accent_at_tick(t) and beat_at_tick(t + ticks_per_measure)
BeatAtTick ==
    /\ ~result.called
    /\ result' = Returned(
          [beat |-> beat_at_tick(BeatSignature, call.tick),
           accent |-> accent_at_tick(BeatSignature, call.tick),
           next_measure |->
              beat_at_tick(BeatSignature,
                  call.tick + ticks_per_measure(BeatSignature))])
    /\ UNCHANGED <<call, tvars, svars, avars, mvars, kvars>>

BNext == BeatAtTick

SpecBeat == BInit /\ [][BNext]_vars

-----------------------------------------------------------------------------
(* Scale detection (transpose.rs): one call of detect_scale on a melody.    *)

\* Option<Scale>::None
NoScale == [root |-> -1, scale_type |-> "none"]

\* Scale::pitch_classes, as the set detect_scale collects
scale_pcs(scale) ==
    {PitchClass_transpose(scale.root, intervals(scale.scale_type)[i]) :
        i \in 1..7}

\* The pitch classes of the notes whose pitch is a MIDI pitch
melody_pitch_classes(notes) ==
    {pitch_class(notes[i].pitch) :
        i \in {j \in 1..Len(notes) : Pitch_from_midi(notes[j].pitch).ok}}

\* The pitch class of the last note, -1 for None
last_note_pc(notes) ==
    IF Pitch_from_midi(notes[Len(notes)].pitch).ok
    THEN pitch_class(notes[Len(notes)].pitch) ELSE -1

\* The candidates in the order of the two loops: roots C..B, and for each
\* NaturalMinor before Major
detect_candidates ==
    [i \in 1..24 |->
        Scale_new((i - 1) \div 2,
                  IF (i - 1) % 2 = 0 THEN "NaturalMinor" ELSE "Major")]

\* (matches_all, last_note_is_root, is_minor, matches)
candidate_score(scale, pitch_classes, last_pc) ==
    <<Cardinality(pitch_classes \cap scale_pcs(scale))
          = Cardinality(pitch_classes),
      last_pc = scale.root,
      scale.scale_type = "NaturalMinor",
      Cardinality(pitch_classes \cap scale_pcs(scale))>>

\* bool < bool
bool_less(a, b) == ~a /\ b

\* `>=` on score tuples
score_not_less(a, b) ==
    IF a[1] # b[1] THEN bool_less(b[1], a[1])
    ELSE IF a[2] # b[2] THEN bool_less(b[2], a[2])
    ELSE IF a[3] # b[3] THEN bool_less(b[3], a[3])
    ELSE a[4] >= b[4]

\* `>` on score tuples: lexicographic
score_greater(a, b) ==
    IF a[1] # b[1] THEN bool_less(b[1], a[1])
    ELSE IF a[2] # b[2] THEN bool_less(b[2], a[2])
    ELSE IF a[3] # b[3] THEN bool_less(b[3], a[3])
    ELSE a[4] > b[4]

\* best_match before the loops: None
NoBest == [scale |-> NoScale, score |-> <<>>]

\* One turn of the loop body: best_match after the candidate `scale`
keep_better(best, scale, score) ==
    IF best.scale = NoScale \/ score_greater(score, best.score)
    THEN [scale |-> scale, score |-> score] ELSE best

\* best_match after the candidates 1..i
RECURSIVE best_match(_, _, _)
best_match(pitch_classes, last_pc, i) ==
    IF i = 0 THEN NoBest
    ELSE keep_better(best_match(pitch_classes, last_pc, i - 1),
                     detect_candidates[i],
                     candidate_score(detect_candidates[i], pitch_classes,
                                     last_pc))

\* detect_scale
detect_scale(notes) ==
    IF Len(notes) = 0 THEN NoScale
    ELSE best_match(melody_pitch_classes(notes), last_note_pc(notes),
                    24).scale

MaxMelody == 3

\* Every pitch class once, and a pitch that is no MIDI pitch
MelodyPitches == 60..71 \cup {200}

\* The melody of a sequence of pitches: quarter notes one after the other
melody_of(pitches) ==
    [i \in 1..Len(pitches) |->
        Note_new(pitches[i], (i - 1) * TICKS_PER_QUARTER, TICKS_PER_QUARTER)]

Melodies ==
    {melody_of(pitches) :
        pitches \in UNION {[1..n -> MelodyPitches] : n \in 0..MaxMelody}}

DInit ==
    /\ call \in [notes : Melodies]
    /\ result = NotMade
    /\ TIdle /\ SIdle /\ AIdle /\ MIdle /\ KIdle

DetectScale ==
    /\ ~result.called
    /\ result' = Returned(detect_scale(call.notes))
    /\ UNCHANGED <<call, tvars, svars, avars, mvars, kvars>>

DNext == DetectScale

SpecDetect == DInit /\ [][DNext]_vars

-----------------------------------------------------------------------------
(* midi.rs: the exporter.  A byte vector is a sequence of 0..255; a call    *)
(* that panics returns no bytes.                                            *)

BytesOk(data) == [ok |-> TRUE, data |-> data, err |-> "none"]
BytesPanic == [ok |-> FALSE, data |-> <<>>, err |-> "panic"]

\* u32::to_be_bytes and u16::to_be_bytes
u32_to_be_bytes(v) ==
    <<(v \div 16777216) % 256, (v \div 65536) % 256, (v \div 256) % 256,
      v % 256>>
u16_to_be_bytes(v) == <<(v \div 256) % 256, v % 256>>

\* `as u8` of an i8
i8_as_u8(v) == v % 256

\* MidiExporter::write_header
write_header(data) ==
    data \o <<77, 84, 104, 100>> \o u32_to_be_bytes(6) \o u16_to_be_bytes(0)
         \o u16_to_be_bytes(1) \o u16_to_be_bytes(TICKS_PER_QUARTER)

\* The while loop of write_var_length: the 7-bit groups of value, lowest
\* first, as it stores them at buffer[0], buffer[1], ...
RECURSIVE var_length_groups(_)
var_length_groups(value) ==
    IF value = 0 THEN <<>>
    ELSE <<value % 128>> \o var_length_groups(value \div 128)

\* The length of `buffer`
VAR_LENGTH_BUFFER == 4

\* The for loop of write_var_length: the groups in reverse, all but
\* buffer[0] with the continuation bit
var_length_reversed(groups) ==
    [k \in 1..Len(groups) |->
        IF k < Len(groups) THEN groups[Len(groups) - k + 1] + 128
        ELSE groups[1]]

\* MidiExporter::write_var_length: storing a fifth group indexes the buffer
\* out of bounds, which panics
write_var_length(data, value) ==
    IF value = 0 THEN BytesOk(Append(data, 0))
    ELSE IF Len(var_length_groups(value)) > VAR_LENGTH_BUFFER THEN BytesPanic
    ELSE BytesOk(data \o var_length_reversed(var_length_groups(value)))

\* MidiExporter::key_to_midi_key
key_to_midi_key(scale) ==
    CASE scale.root = 0 -> 0
      [] scale.root = 7 -> 1
      [] scale.root = 2 -> 2
      [] scale.root = 9 -> 3
      [] scale.root = 4 -> 4
      [] scale.root = 11 -> 5
      [] scale.root = 6 -> 6
      [] scale.root = 1 -> 7
      [] scale.root = 5 -> -1
      [] scale.root = 10 -> -2
      [] scale.root = 3 -> -3
      [] scale.root = 8 -> -4
      [] OTHER -> 0

\* str::as_bytes of the titles the scores carry
as_bytes(title) ==
    CASE title = "Untitled" -> <<85, 110, 116, 105, 116, 108, 101, 100>>
      [] title = "Etude" -> <<69, 116, 117, 100, 101>>
      [] title = "" -> <<>>

\* Note::end_tick
end_tick(note) == note.start_tick + note.duration_ticks

\* The two events of a note
events_of(note) ==
    <<[tick |-> note.start_tick, is_on |-> TRUE, pitch |-> note.pitch,
       velocity |-> note.velocity],
      [tick |-> end_tick(note), is_on |-> FALSE, pitch |-> note.pitch,
       velocity |-> 0]>>

\* The events in the order they are pushed
RECURSIVE pushed_events(_)
pushed_events(notes) ==
    IF notes = <<>> THEN <<>>
    ELSE events_of(Head(notes)) \o pushed_events(Tail(notes))

\* A comparator on ticks alone
event_greater_by_tick(a, b) == a.tick > b.tick

\* The comparator of the sort is Greater: by tick, then false before true
event_greater(a, b) ==
    \/ a.tick > b.tick
    \/ a.tick = b.tick /\ a.is_on /\ ~b.is_on

\* sort_by is stable: an event goes behind every event that is not greater
RECURSIVE insert_event(_, _)
insert_event(sorted, event) ==
    IF sorted = <<>> THEN <<event>>
    ELSE IF ~event_greater(sorted[Len(sorted)], event)
         THEN Append(sorted, event)
         ELSE Append(insert_event(SubSeq(sorted, 1, Len(sorted) - 1), event),
                     sorted[Len(sorted)])

RECURSIVE sort_events(_, _)
sort_events(events, acc) ==
    IF events = <<>> THEN acc
    ELSE sort_events(Tail(events), insert_event(acc, Head(events)))

\* u32::saturating_sub
saturating_sub(a, b) == IF a > b THEN a - b ELSE 0

\* The three bytes after the delta time
event_bytes(event) ==
    IF event.is_on THEN <<144, event.pitch, event.velocity>>
    ELSE <<128, event.pitch, 0>>

\* One turn of the loop that writes the events
write_event(written, event, last_tick) ==
    IF ~written.ok THEN BytesPanic
    ELSE IF ~write_var_length(written.data,
                              saturating_sub(event.tick, last_tick)).ok
    THEN BytesPanic
    ELSE BytesOk(write_var_length(written.data,
                     saturating_sub(event.tick, last_tick)).data
                 \o event_bytes(event))

\* The loop that writes the events 1..i
RECURSIVE write_events(_, _, _)
write_events(track, events, i) ==
    IF i = 0 THEN BytesOk(track)
    ELSE write_event(write_events(track, events, i - 1), events[i],
                     IF i = 1 THEN 0 ELSE events[i - 1].tick)

\* The meta events at time 0: tempo, time signature, key signature and the
\* head of the track name
meta_events(score, tempo_us) ==
    <<0, 255, 81, 3, (tempo_us \div 65536) % 256, (tempo_us \div 256) % 256,
      tempo_us % 256>>
    \o <<0, 255, 88, 4, score.time_signature.numerator,
         CASE score.time_signature.denominator = 2 -> 1
           [] score.time_signature.denominator = 4 -> 2
           [] score.time_signature.denominator = 8 -> 3
           [] score.time_signature.denominator = 16 -> 4
           [] OTHER -> 2,
         24, 8>>
    \o <<0, 255, 89, 2, i8_as_u8(key_to_midi_key(score.key)),
         IF score.key.scale_type = "Major" THEN 0 ELSE 1>>
    \o <<0, 255, 3>>

\* The end of build_track: the events and the end of the track
finish_track(written) ==
    IF ~written.ok THEN BytesPanic
    ELSE BytesOk(written.data \o <<0, 255, 47, 0>>)

\* The track name and what follows it
name_and_events(track, title, events) ==
    IF ~write_var_length(track, Len(title)).ok THEN BytesPanic
    ELSE finish_track(
            write_events(write_var_length(track, Len(title)).data \o title,
                         events, Len(events)))

\* MidiExporter::build_track: the division panics for tempo 0
build_track(score) ==
    IF score.tempo = 0 THEN BytesPanic
    ELSE name_and_events(meta_events(score, TruncDiv(60000000, score.tempo)),
                         as_bytes(score.title),
                         sort_events(pushed_events(score.notes), <<>>))

\* MidiExporter::write_track
write_track(data, track_data) ==
    data \o <<77, 84, 114, 107>> \o u32_to_be_bytes(Len(track_data))
         \o track_data

\* MidiExporter::export
export(score) ==
    IF ~build_track(score).ok THEN BytesPanic
    ELSE BytesOk(write_track(write_header(<<>>), build_track(score).data))

-----------------------------------------------------------------------------
(* One call of write_var_length, and one export of a score.                 *)

MaxVarLength == 300

\* The small values, and the values around each new 7-bit group
VarLengthInputs ==
    0..MaxVarLength
    \cup {16383, 16384, 2097151, 2097152, 268435455, 268435456, 2147483647}

VInit ==
    /\ call \in [value : VarLengthInputs]
    /\ result = NotMade
    /\ TIdle /\ SIdle /\ AIdle /\ MIdle /\ KIdle

WriteVarLength ==
    /\ ~result.called
    /\ result' = Returned(write_var_length(<<>>, call.value))
    /\ UNCHANGED <<call, tvars, svars, avars, mvars, kvars>>

VNext == WriteVarLength

SpecVarLength == VInit /\ [][VNext]_vars

MaxMidiNotes == 2
FarTick == 268435456

\* Notes at the start, a quarter later and far into the score; some of no
\* duration
MidiNotes ==
    {Note_new(pitch, start_tick, duration_ticks) :
        pitch \in {60, 64}, start_tick \in {0, TICKS_PER_QUARTER, FarTick},
        duration_ticks \in {0, TICKS_PER_QUARTER}}

\* Scores as Song::from_json accepts them: the notes in any order, any u16
\* as tempo
MidiScores ==
    {[Song_new(0) EXCEPT !.notes = notes, !.tempo = tempo, !.title = title,
                         !.key = key] :
        notes \in UNION {[1..n -> MidiNotes] : n \in 0..MaxMidiNotes},
        tempo \in {0, 120}, title \in {"Untitled", "Etude"},
        key \in {c_major, a_minor}}

XInit ==
    /\ call \in [score : MidiScores]
    /\ result = NotMade
    /\ TIdle /\ SIdle /\ AIdle /\ MIdle /\ KIdle

Export ==
    /\ ~result.called
    /\ result' = Returned(export(call.score))
    /\ UNCHANGED <<call, tvars, svars, avars, mvars, kvars>>

XNext == Export

SpecMidi == XInit /\ [][XNext]_vars

-----------------------------------------------------------------------------
(* note.rs, pitch.rs: the text notation of notes and melodies.  A text is   *)
(* a sequence of one-character strings.                                     *)

Uppers == <<"A", "B", "C", "D", "E", "F", "G", "H", "I", "J", "K", "L", "M",
            "N", "O", "P", "Q", "R", "S", "T", "U", "V", "W", "X", "Y", "Z">>
Lowers == <<"a", "b", "c", "d", "e", "f", "g", "h", "i", "j", "k", "l", "m",
            "n", "o", "p", "q", "r", "s", "t", "u", "v", "w", "x", "y", "z">>

\* char::is_ascii_alphabetic
is_ascii_alphabetic(c) == \E k \in 1..26 : Uppers[k] = c \/ Lowers[k] = c

\* str::to_uppercase and str::to_lowercase, on ASCII
to_uppercase(text) ==
    [i \in 1..Len(text) |->
        IF \E k \in 1..26 : Lowers[k] = text[i]
        THEN Uppers[CHOOSE k \in 1..26 : Lowers[k] = text[i]] ELSE text[i]]
to_lowercase(text) ==
    [i \in 1..Len(text) |->
        IF \E k \in 1..26 : Uppers[k] = text[i]
        THEN Lowers[CHOOSE k \in 1..26 : Uppers[k] = text[i]] ELSE text[i]]

\* The string of a text, to match it against string literals
RECURSIVE as_str(_)
as_str(text) == IF text = <<>> THEN "" ELSE Head(text) \o as_str(Tail(text))

\* NoteValue::ticks
NoteValue_ticks(value) ==
    CASE value = "Whole" -> TICKS_PER_QUARTER * 4
      [] value = "Half" -> TICKS_PER_QUARTER * 2
      [] value = "Quarter" -> TICKS_PER_QUARTER
      [] value = "Eighth" -> TruncDiv(TICKS_PER_QUARTER, 2)
      [] value = "Sixteenth" -> TruncDiv(TICKS_PER_QUARTER, 4)

\* NoteValue::parse; "" for an error
NoteValue_parse(text) ==
    CASE as_str(to_lowercase(text)) \in {"w", "whole", "1"} -> "Whole"
      [] as_str(to_lowercase(text)) \in {"h", "half", "2"} -> "Half"
      [] as_str(to_lowercase(text)) \in {"q", "quarter", "4"} -> "Quarter"
      [] as_str(to_lowercase(text)) \in {"e", "eighth", "8"} -> "Eighth"
      [] as_str(to_lowercase(text)) \in {"s", "sixteenth", "16"} -> "Sixteenth"
      [] OTHER -> ""

\* NoteDuration::ticks
NoteDuration_ticks(value, dotted) ==
    IF dotted THEN NoteValue_ticks(value) + TruncDiv(NoteValue_ticks(value), 2)
    ELSE NoteValue_ticks(value)

\* The duration text without its dot
value_str(duration_str) ==
    IF duration_str[Len(duration_str)] = "."
    THEN SubSeq(duration_str, 1, Len(duration_str) - 1) ELSE duration_str

\* The duration of a note or rest from the text behind its head, in ticks;
\* a quarter when there is none, -1 for an error
parse_duration(duration_str) ==
    IF duration_str = <<>> THEN NoteDuration_ticks("Quarter", FALSE)
    ELSE IF NoteValue_parse(value_str(duration_str)) = "" THEN -1
    ELSE NoteDuration_ticks(NoteValue_parse(value_str(duration_str)),
                            duration_str[Len(duration_str)] = ".")

\* str::parse::<i8>: an optional sign, then digits, the value an i8
IntOk(v) == [ok |-> TRUE, value |-> v]
IntErr == [ok |-> FALSE, value |-> 0]
parse_digits(digits, sign) ==
    IF digits = <<>> THEN IntErr
    ELSE IF \E i \in 1..Len(digits) : ~IsDigit(digits[i]) THEN IntErr
    ELSE IF ~InI8(sign * decimal_value(digits, 0)) THEN IntErr
    ELSE IntOk(sign * decimal_value(digits, 0))
parse_i8(text) ==
    IF text = <<>> THEN IntErr
    ELSE IF Head(text) = "-" THEN parse_digits(Tail(text), -1)
    ELSE IF Head(text) = "+" THEN parse_digits(Tail(text), 1)
    ELSE parse_digits(text, 1)

\* The position of the first digit or "-" from i on, 0 for None
RECURSIVE octave_start(_, _)
octave_start(text, i) ==
    IF i > Len(text) THEN 0
    ELSE IF IsDigit(text[i]) \/ text[i] = "-" THEN i
    ELSE octave_start(text, i + 1)

\* Pitch::parse behind the search for the octave
pitch_of(pitch_class_str, octave_str, overflow_checks) ==
    IF PitchClass_parse(as_str(to_uppercase(trim(pitch_class_str)))) = -1
    THEN Err("InvalidPitch")
    ELSE IF ~parse_i8(octave_str).ok THEN Err("ParseError")
    ELSE Pitch_new(PitchClass_parse(as_str(to_uppercase(trim(pitch_class_str)))),
                   parse_i8(octave_str).value, overflow_checks)

\* Pitch::parse
split_pitch(text, at, overflow_checks) ==
    IF at = 0 THEN Err("ParseError")
    ELSE pitch_of(SubSeq(text, 1, at - 1), SubSeq(text, at, Len(text)),
                  overflow_checks)
Pitch_parse(text, overflow_checks) ==
    split_pitch(trim(text), octave_start(trim(text), 1), overflow_checks)

\* The loop of Note::parse: the position of the first letter behind a digit
\* or "-", Len + 1 when there is none
RECURSIVE pitch_end(_, _, _)
pitch_end(text, i, found_octave) ==
    IF i > Len(text) THEN Len(text) + 1
    ELSE IF IsDigit(text[i]) \/ text[i] = "-" THEN pitch_end(text, i + 1, TRUE)
    ELSE IF found_octave /\ is_ascii_alphabetic(text[i]) THEN i
    ELSE pitch_end(text, i + 1, found_octave)

\* Note::from_pitch
Note_from_pitch(midi, start_tick, ticks) == Note_new(midi, start_tick, ticks)

\* Note::parse behind the split: the pitch is parsed before the duration
note_of(pitch, ticks, start_tick) ==
    IF ~pitch.ok THEN NoteErr(pitch.err)
    ELSE IF ticks = -1 THEN NoteErr("InvalidDuration")
    ELSE NoteOk(Note_from_pitch(pitch.midi, start_tick, ticks))

split_note(text, at, start_tick, overflow_checks) ==
    note_of(Pitch_parse(SubSeq(text, 1, at - 1), overflow_checks),
            parse_duration(SubSeq(text, at, Len(text))), start_tick)

\* Note::parse
Note_parse(text, start_tick, overflow_checks) ==
    IF trim(text) = <<>> THEN NoteErr("ParseError")
    ELSE split_note(trim(text), pitch_end(trim(text), 1, FALSE), start_tick,
                    overflow_checks)

\* str::split_whitespace, on spaces
RECURSIVE split_whitespace(_, _, _)
split_whitespace(text, i, part) ==
    IF i > Len(text) THEN IF part = <<>> THEN <<>> ELSE <<part>>
    ELSE IF text[i] = " "
    THEN (IF part = <<>> THEN <<>> ELSE <<part>>)
         \o split_whitespace(text, i + 1, <<>>)
    ELSE split_whitespace(text, i + 1, Append(part, text[i]))

\* The state of the loop of parse_melody
MelodyOk(notes, current_tick) ==
    [ok |-> TRUE, notes |-> notes, current_tick |-> current_tick,
     err |-> "none"]
MelodyErr(e) == [ok |-> FALSE, notes |-> <<>>, current_tick |-> 0, err |-> e]

\* A rest that moves nothing
rest_ignored(parsed, ticks) == parsed

\* The rest branch: the duration is added to current_tick
rest(parsed, ticks) ==
    IF ticks = -1 THEN MelodyErr("InvalidDuration")
    ELSE MelodyOk(parsed.notes, parsed.current_tick + ticks)

\* The note branch: the note is pushed and current_tick is its end_tick
pushed(parsed, note) ==
    IF ~note.ok THEN MelodyErr(note.err)
    ELSE MelodyOk(Append(parsed.notes, note.note), end_tick(note.note))

\* One turn of the loop of parse_melody
parse_token(parsed, token, overflow_checks) ==
    IF ~parsed.ok THEN parsed
    ELSE IF Head(to_uppercase(token)) = "R"
    THEN rest(parsed, parse_duration(Tail(token)))
    ELSE pushed(parsed, Note_parse(token, parsed.current_tick,
                                   overflow_checks))

RECURSIVE parse_tokens(_, _, _)
parse_tokens(tokens, i, overflow_checks) ==
    IF i = 0 THEN MelodyOk(<<>>, 0)
    ELSE parse_token(parse_tokens(tokens, i - 1, overflow_checks), tokens[i],
                     overflow_checks)

\* parse_melody
parse_melody(text, overflow_checks) ==
    IF parse_tokens(split_whitespace(text, 1, <<>>),
                    Len(split_whitespace(text, 1, <<>>)), overflow_checks).ok
    THEN NotesOk(parse_tokens(split_whitespace(text, 1, <<>>),
                    Len(split_whitespace(text, 1, <<>>)),
                    overflow_checks).notes)
    ELSE NotesErr(parse_tokens(split_whitespace(text, 1, <<>>),
                    Len(split_whitespace(text, 1, <<>>)),
                    overflow_checks).err)

MaxTokens == 3

\* Tokens with what they denote: a note of a pitch, a rest, or no token of
\* the notation; `ticks` is the duration
Token(text, kind, midi, ticks) ==
    [text |-> text, kind |-> kind, midi |-> midi, ticks |-> ticks]
TokenInputs ==
    {Token(<<"C", "4", "q">>, "note", 60, 480),
     Token(<<"D", "4", "q">>, "note", 62, 480),
     Token(<<"E", "4", "q">>, "note", 64, 480),
     Token(<<"f", "#", "5", "h", ".">>, "note", 78, 1440),
     Token(<<"B", "b", "3", "e">>, "note", 58, 240),
     Token(<<"C", "-", "1", "s">>, "note", 0, 120),
     Token(<<"G", "9">>, "note", 127, 480),
     Token(<<"A", "4", "w", "h", "o", "l", "e">>, "note", 69, 1920),
     Token(<<"R">>, "rest", 0, 480),
     Token(<<"r", "h", ".">>, "rest", 0, 1440),
     Token(<<"R", "1", "6">>, "rest", 0, 120),
     Token(<<"A", "9", "q">>, "none", 0, 0),
     Token(<<"C", "4", "x">>, "none", 0, 0),
     Token(<<"R", "x">>, "none", 0, 0)}

\* The tokens of a melody text, separated by spaces, two behind a rest
RECURSIVE joined(_)
joined(tokens) ==
    IF tokens = <<>> THEN <<>>
    ELSE IF Len(tokens) = 1 THEN tokens[1].text
    ELSE tokens[1].text
         \o (IF tokens[1].kind = "rest" THEN <<" ", " ">> ELSE <<" ">>)
         \o joined(Tail(tokens))

YInit ==
    /\ call \in [tokens : UNION {[1..n -> TokenInputs] : n \in 0..MaxTokens}]
    /\ result = NotMade
    /\ TIdle /\ SIdle /\ AIdle /\ MIdle /\ KIdle

ParseMelody ==
    /\ ~result.called
    /\ \E overflow_checks \in BOOLEAN :
          result' = Returned(parse_melody(joined(call.tokens), overflow_checks))
    /\ UNCHANGED <<call, tvars, svars, avars, mvars, kvars>>

YNext == ParseMelody

SpecMelody == YInit /\ [][YNext]_vars

-----------------------------------------------------------------------------
(* One call of Scale::nearest_scale_tone.                                   *)

GInit ==
    /\ call \in [scale : Scales, pitch_class : PitchClasses]
    /\ result = NotMade
    /\ TIdle /\ SIdle /\ AIdle /\ MIdle /\ KIdle

NearestScaleTone ==
    /\ ~result.called
    /\ result' = Returned(nearest_scale_tone(call.scale, call.pitch_class))
    /\ UNCHANGED <<call, tvars, svars, avars, mvars, kvars>>

GNext == NearestScaleTone

SpecNearest == GInit /\ [][GNext]_vars

-----------------------------------------------------------------------------
(* A diatonic transposition of a scale tone within one scale, and the       *)
(* transposition of its result by the opposite number of degrees.           *)

MaxBackDegrees == 15

\* Up to two octaves each way, and the numbers of degrees around the width
\* of the MIDI range and at the end of the i8 range
BackDegrees ==
    (-MaxBackDegrees)..MaxBackDegrees \cup {-127, -75, -74, 74, 75, 127}

RInit ==
    /\ call \in {r \in [pitch : 0..MIDI_MAX, scale : Scales,
                        degrees : BackDegrees] :
                    contains(r.scale, pitch_class(r.pitch))}
    /\ result = NotMade
    /\ TIdle /\ SIdle /\ AIdle /\ MIdle /\ KIdle

\* The second call is made with the result of the first
back_from(there, scale, degrees, overflow_checks) ==
    IF there.ok
    THEN transpose_pitch_diatonic(there.midi, scale, scale, -degrees,
                                  overflow_checks)
    ELSE NotCalled

TransposeAndBack ==
    /\ ~result.called
    /\ \E overflow_checks \in BOOLEAN :
          result' = Returned(
            [there |-> transpose_pitch_diatonic(call.pitch, call.scale,
                           call.scale, call.degrees, overflow_checks),
             back |-> back_from(
                         transpose_pitch_diatonic(call.pitch, call.scale,
                             call.scale, call.degrees, overflow_checks),
                         call.scale, call.degrees, overflow_checks)])
    /\ UNCHANGED <<call, tvars, svars, avars, mvars, kvars>>

RNext == TransposeAndBack

SpecBack == RInit /\ [][RNext]_vars

-----------------------------------------------------------------------------
(* wasm.rs: Mozart::invert, one call on a score.                            *)

\* The loop of Mozart::invert from note i on: each pitch is written in place
\* before the next note is looked at, and the first result outside 0..127
\* returns the error
RECURSIVE invert_from(_, _, _)
invert_from(s, pivot, i) ==
    IF i > Len(s.notes) THEN Outcome(s, TRUE, "none")
    ELSE IF 2 * pivot - s.notes[i].pitch < 0
            \/ 2 * pivot - s.notes[i].pitch > MIDI_MAX
    THEN Outcome(s, FALSE, "OutOfRange")
    ELSE invert_from([s EXCEPT !.notes[i].pitch = 2 * pivot - s.notes[i].pitch],
                     pivot, i + 1)

\* Mozart::invert
Mozart_invert(s, pivot) == invert_from(s, pivot, 1)

MaxInvertNotes == 3

InvertPitches == {10, 60, 64, 120}
PivotInputs == {0, 35, 62, 64, 90, 127, U8_MAX}

\* Scores of quarter notes one after the other
InvertScores ==
    {[Song_new(0) EXCEPT !.notes =
         [i \in 1..Len(pitches) |->
            Note_with_velocity(pitches[i], (i - 1) * TICKS_PER_QUARTER,
                               TICKS_PER_QUARTER, 80)]] :
        pitches \in UNION {[1..n -> InvertPitches] : n \in 0..MaxInvertNotes}}

IInit ==
    /\ call \in [score : InvertScores, pivot : PivotInputs]
    /\ result = NotMade
    /\ TIdle /\ SIdle /\ AIdle /\ MIdle /\ KIdle

Invert ==
    /\ ~result.called
    /\ result' = Returned(Mozart_invert(call.score, call.pivot))
    /\ UNCHANGED <<call, tvars, svars, avars, mvars, kvars>>

INext == Invert

SpecInvert == IInit /\ [][INext]_vars

-----------------------------------------------------------------------------
(* song.rs: a score written by Song::to_json and read by Song::from_json.   *)

MaxJsonNotes == 2

\* Notes with their own velocity and voice, one of a pitch above 127
JsonNotes ==
    {[Note_with_velocity(60, 0, 480, 90) EXCEPT !.voice = 1],
     Note_new(64, 480, 240),
     [Note_with_velocity(64, 0, 0, 127) EXCEPT !.voice = 2],
     Note_new(200, 960, 1920)}

\* Scores as the public fields allow them
JsonScores ==
    {[version |-> "1.0", title |-> title, composer |-> composer,
      created |-> chrono_lite_now(0), modified |-> chrono_lite_now(modified),
      tempo |-> tempo, time_signature |-> time_signature, key |-> key,
      notes |-> notes] :
        title \in {"Untitled", ""}, composer \in {"", "Anon"},
        modified \in {0, 1}, tempo \in {0, 120, U16_MAX},
        time_signature \in
           {TimeSignature_common,
            TimeSignature_with_accents(3, 8, <<Weak, Medium, Strong>>).ts},
        key \in {c_major, a_minor, Scale_new(6, "Dorian")},
        notes \in UNION {[1..n -> JsonNotes] : n \in 0..MaxJsonNotes}}

JInit ==
    /\ call \in [score : JsonScores]
    /\ result = NotMade
    /\ TIdle /\ SIdle /\ AIdle /\ MIdle /\ KIdle

WriteAndRead ==
    /\ ~result.called
    /\ result' = Returned(Song_from_json(Song_to_json(call.score)))
    /\ UNCHANGED <<call, tvars, svars, avars, mvars, kvars>>

JNext == WriteAndRead

SpecJson == JInit /\ [][JNext]_vars

----------------------------------------------------------------------------
(* src-tauri/src/lib.rs: the desktop commands that keep a history.  One    *)
(* command runs at a time here; `result` remembers the last command: what   *)
(* it returned and the song and the two stacks it found.                    *)

MaxDeskOps == 3

\* AppState::push_undo on both stacks
pushed_history(s, undos, redos) ==
    [undo_stack |-> push_undo(undos, s), redo_stack |-> <<>>]

\* What a command leaves: `returned` is the bool of undo and redo, and
\* is_ok / is_some of the others
Left(returned, s, undos, redos) ==
    [returned |-> returned, song |-> s, undo_stack |-> undos, redo_stack |-> redos]

\* undo that forgets the song it replaces
undo_forgetting(s, undos, redos) ==
    IF undos # <<>>
    THEN Left(TRUE, undos[Len(undos)], SubSeq(undos, 1, Len(undos) - 1), redos)
    ELSE Left(FALSE, s, undos, redos)

\* undo: pop the undo stack, push the current song on the redo stack
undo(s, undos, redos) ==
    IF undos # <<>>
    THEN Left(TRUE, undos[Len(undos)], SubSeq(undos, 1, Len(undos) - 1),
              Append(redos, s))
    ELSE Left(FALSE, s, undos, redos)

\* redo: pop the redo stack, push the current song on the undo stack
redo(s, undos, redos) ==
    IF redos # <<>>
    THEN Left(TRUE, redos[Len(redos)], Append(undos, s),
              SubSeq(redos, 1, Len(redos) - 1))
    ELSE Left(FALSE, s, undos, redos)

\* A command that calls push_undo first and then leaves the song `after`
after_push(returned, s, after, undos, redos) ==
    Left(returned, after, pushed_history(s, undos, redos).undo_stack,
         pushed_history(s, undos, redos).redo_stack)

\* load_song, load_song_json: the `?` returns before push_undo
after_load(loaded, s, undos, redos) ==
    IF loaded.ok THEN after_push(TRUE, s, loaded.song, undos, redos)
    ELSE Left(FALSE, s, undos, redos)

\* parse_text_melody after its push_undo: clear_notes and add_notes of the
\* parsed notes, or the song as it was
melody_song(s, parsed, clock) ==
    IF parsed.ok THEN Song_add_notes(Song_clear_notes(s, clock), parsed.notes, clock)
    ELSE s

DeskNotes ==
    {Note_with_velocity(60, 0, 480, 100), Note_with_velocity(127, 480, 480, 100)}
DeskTexts ==
    {<<"C", "4", "q", " ", "G", "9">>, <<"C", "4", "q", " ", "H", "4">>, <<>>}

DInitDesk == TIdle /\ SIdle /\ AIdle /\ MIdle /\ KIdle /\ FIdle

\* One command: what it leaves and what is remembered of it
Command(op, left) ==
    /\ s_ops < MaxDeskOps
    /\ s_ops' = s_ops + 1
    /\ song' = left.song
    /\ undo_stack' = left.undo_stack
    /\ redo_stack' = left.redo_stack
    /\ result' = Returned([op |-> op, returned |-> left.returned,
                           song |-> song, undo_stack |-> undo_stack,
                           redo_stack |-> redo_stack])

cmd_new_song ==
    /\ Command("new_song",
               after_push(TRUE, song, Song_new(now), undo_stack, redo_stack))
    /\ UNCHANGED <<now, s_last, s_mutated_at, call, tvars, mvars, kvars>>

cmd_add_note ==
    /\ \E note \in DeskNotes :
          Command("add_note",
                  after_push(TRUE, song, Song_add_note(song, note, now),
                             undo_stack, redo_stack))
    /\ UNCHANGED <<now, s_last, s_mutated_at, call, tvars, mvars, kvars>>

cmd_remove_note ==
    /\ \E index \in 0..MaxNotes :
          Command("remove_note",
                  after_push(index < Len(song.notes), song,
                             Song_remove_note(song, index, now),
                             undo_stack, redo_stack))
    /\ UNCHANGED <<now, s_last, s_mutated_at, call, tvars, mvars, kvars>>

cmd_clear_notes ==
    /\ Command("clear_notes",
               after_push(TRUE, song, Song_clear_notes(song, now),
                          undo_stack, redo_stack))
    /\ UNCHANGED <<now, s_last, s_mutated_at, call, tvars, mvars, kvars>>

cmd_parse_text_melody ==
    /\ \E text \in DeskTexts, overflow_checks \in BOOLEAN :
          Command("parse_text_melody",
                  after_push(parse_melody(text, overflow_checks).ok, song,
                             melody_song(song, parse_melody(text, overflow_checks),
                                         now),
                             undo_stack, redo_stack))
    /\ UNCHANGED <<now, s_last, s_mutated_at, call, tvars, mvars, kvars>>

cmd_transpose ==
    /\ \E request \in TransposeRequests, overflow_checks \in BOOLEAN :
          Command("transpose",
                  after_push(command_transpose(song, request, overflow_checks).ok,
                             song,
                             command_transpose(song, request, overflow_checks).song,
                             undo_stack, redo_stack))
    /\ UNCHANGED <<now, s_last, s_mutated_at, call, tvars, mvars, kvars>>

cmd_load_song ==
    /\ \E path \in Paths :
          Command("load_song",
                  after_load(Song_load(Files, path), song, undo_stack, redo_stack))
    /\ UNCHANGED <<now, s_last, s_mutated_at, call, tvars, mvars, kvars>>

cmd_load_song_json ==
    /\ \E json \in Documents :
          Command("load_song_json",
                  after_load(Song_from_json(json), song, undo_stack, redo_stack))
    /\ UNCHANGED <<now, s_last, s_mutated_at, call, tvars, mvars, kvars>>

cmd_undo ==
    /\ Command("undo", undo(song, undo_stack, redo_stack))
    /\ UNCHANGED <<now, s_last, s_mutated_at, call, tvars, mvars, kvars>>

cmd_redo ==
    /\ Command("redo", redo(song, undo_stack, redo_stack))
    /\ UNCHANGED <<now, s_last, s_mutated_at, call, tvars, mvars, kvars>>

DeskNext ==
    \/ Tick
    \/ cmd_new_song
    \/ cmd_add_note
    \/ cmd_remove_note
    \/ cmd_clear_notes
    \/ cmd_parse_text_melody
    \/ cmd_transpose
    \/ cmd_load_song
    \/ cmd_load_song_json
    \/ cmd_undo
    \/ cmd_redo

SpecDesk == DInitDesk /\ [][DeskNext]_vars

----------------------------------------------------------------------------
(* The history at its limit: notes are entered one after the other, with   *)
(* undo and redo in between, until more than UNDO_LIMIT snapshots were      *)
(* pushed.                                                                  *)

MaxHistory == 52

\* The note entered after those of s
next_note(s) ==
    Note_with_velocity(60 + Len(s.notes), TICKS_PER_QUARTER * Len(s.notes),
                       TICKS_PER_QUARTER, 100)

HInit == TIdle /\ SIdle /\ AIdle /\ MIdle /\ KIdle /\ FIdle

\* One command of the history: what it leaves and what is remembered of it
Recorded(op, left) ==
    /\ song' = left.song
    /\ undo_stack' = left.undo_stack
    /\ redo_stack' = left.redo_stack
    /\ result' = Returned([op |-> op, returned |-> left.returned,
                           song |-> song, undo_stack |-> undo_stack,
                           redo_stack |-> redo_stack])

\* add_note
AddNextNote ==
    /\ Len(song.notes) < MaxHistory
    /\ Recorded("add_note",
                after_push(TRUE, song, Song_add_note(song, next_note(song), now),
                           undo_stack, redo_stack))
    /\ UNCHANGED <<now, s_last, s_mutated_at, s_ops, call, tvars, mvars, kvars>>

\* undo
Undo ==
    /\ Recorded("undo", undo(song, undo_stack, redo_stack))
    /\ UNCHANGED <<now, s_last, s_mutated_at, s_ops, call, tvars, mvars, kvars>>

\* redo
Redo ==
    /\ Recorded("redo", redo(song, undo_stack, redo_stack))
    /\ UNCHANGED <<now, s_last, s_mutated_at, s_ops, call, tvars, mvars, kvars>>

HNext ==
    \/ AddNextNote
    \/ Undo
    \/ Redo

SpecHistory == HInit /\ [][HNext]_vars

----------------------------------------------------------------------------
(* src-tauri/src/lib.rs: commands on several threads against one AppState. *)
(* Each statement that takes a lock is one step, enabled when the lock can  *)
(* be taken.  A guard that lives for one statement only (song.read(),       *)
(* song.write(), the guards inside push_undo) is taken and dropped within   *)
(* its step; undo holds the undo_stack guard, and redo the redo_stack       *)
(* guard, from its first statement to its return, and `locks` tells which   *)
(* thread holds them.                                                       *)

Threads == {1, 2}
MaxLockOps == 5

\* A thread that runs no command
Resting ==
    [cmd |-> "none", pc |-> "idle", current |-> Song_new(0),
     popped |-> Song_new(0)]

ThreadsInit ==
    /\ TIdle /\ SIdle /\ AIdle /\ MIdle /\ FIdle
    /\ locks = NoLocks
    /\ threads = [t \in Threads |-> Resting]

At(t, cmd, pc) == threads[t].cmd = cmd /\ threads[t].pc = pc
Free(lock) == locks[lock] = 0
Goto(t, pc) == threads' = [threads EXCEPT ![t].pc = pc]
Return(t) == threads' = [threads EXCEPT ![t] = Resting]

\* A command is called on a thread that runs none
Invoke ==
    /\ s_ops < MaxLockOps
    /\ s_ops' = s_ops + 1
    /\ \E t \in Threads, cmd \in {"add_note", "undo", "redo"} :
          /\ At(t, "none", "idle")
          /\ threads' = [threads EXCEPT ![t].cmd = cmd, ![t].pc = "start"]
    /\ UNCHANGED <<song, now, s_last, s_mutated_at, locks, tvars, avars, mvars,
                   fvars>>

\* push_undo: `let song = self.song.read().clone();`
push_undo_clone(t) ==
    /\ At(t, "add_note", "start")
    /\ threads' = [threads EXCEPT ![t].current = song, ![t].pc = "push"]
    /\ UNCHANGED <<song, undo_stack, redo_stack, locks>>

\* push_undo: `self.undo_stack.write().push(song);`
push_undo_push(t) ==
    /\ At(t, "add_note", "push")
    /\ Free("undo_stack")
    /\ undo_stack' = Append(undo_stack, threads[t].current)
    /\ Goto(t, "clear")
    /\ UNCHANGED <<song, redo_stack, locks>>

\* push_undo: `self.redo_stack.write().clear();`
push_undo_clear(t) ==
    /\ At(t, "add_note", "clear")
    /\ Free("redo_stack")
    /\ redo_stack' = <<>>
    /\ Goto(t, "limit")
    /\ UNCHANGED <<song, undo_stack, locks>>

\* push_undo: `let mut stack = self.undo_stack.write(); while ...`
push_undo_limit(t) ==
    /\ At(t, "add_note", "limit")
    /\ Free("undo_stack")
    /\ undo_stack' = limit_history(undo_stack)
    /\ Goto(t, "write")
    /\ UNCHANGED <<song, redo_stack, locks>>

\* add_note: `state.song.write().add_note(note.into());`
add_note_write(t) ==
    /\ At(t, "add_note", "write")
    /\ song' = Song_add_note(song, next_note(song), now)
    /\ Return(t)
    /\ UNCHANGED <<undo_stack, redo_stack, locks>>

\* undo: `let mut undo_stack = state.undo_stack.write();` and the pop; with
\* nothing to pop the guard is dropped and false returned
undo_pop(t) ==
    /\ At(t, "undo", "start")
    /\ Free("undo_stack")
    /\ IF undo_stack = <<>>
       THEN /\ Return(t)
            /\ UNCHANGED <<undo_stack, locks>>
       ELSE /\ locks' = [locks EXCEPT !.undo_stack = t]
            /\ undo_stack' = SubSeq(undo_stack, 1, Len(undo_stack) - 1)
            /\ threads' = [threads EXCEPT
                              ![t].popped = undo_stack[Len(undo_stack)],
                              ![t].pc = "clone"]
    /\ UNCHANGED <<song, redo_stack>>

\* undo: `let current = state.song.read().clone();`
undo_clone(t) ==
    /\ At(t, "undo", "clone")
    /\ threads' = [threads EXCEPT ![t].current = song, ![t].pc = "push"]
    /\ UNCHANGED <<song, undo_stack, redo_stack, locks>>

\* undo: `state.redo_stack.write().push(current);`
undo_push(t) ==
    /\ At(t, "undo", "push")
    /\ Free("redo_stack")
    /\ redo_stack' = Append(redo_stack, threads[t].current)
    /\ Goto(t, "write")
    /\ UNCHANGED <<song, undo_stack, locks>>

\* undo: `*state.song.write() = prev_song;`, true is returned and the
\* undo_stack guard dropped
undo_write(t) ==
    /\ At(t, "undo", "write")
    /\ song' = threads[t].popped
    /\ locks' = [locks EXCEPT !.undo_stack = 0]
    /\ Return(t)
    /\ UNCHANGED <<undo_stack, redo_stack>>

\* redo: `let mut redo_stack = state.redo_stack.write();` and the pop
redo_pop(t) ==
    /\ At(t, "redo", "start")
    /\ Free("redo_stack")
    /\ IF redo_stack = <<>>
       THEN /\ Return(t)
            /\ UNCHANGED <<redo_stack, locks>>
       ELSE /\ locks' = [locks EXCEPT !.redo_stack = t]
            /\ redo_stack' = SubSeq(redo_stack, 1, Len(redo_stack) - 1)
            /\ threads' = [threads EXCEPT
                              ![t].popped = redo_stack[Len(redo_stack)],
                              ![t].pc = "clone"]
    /\ UNCHANGED <<song, undo_stack>>

\* redo: `let current = state.song.read().clone();`
redo_clone(t) ==
    /\ At(t, "redo", "clone")
    /\ threads' = [threads EXCEPT ![t].current = song, ![t].pc = "push"]
    /\ UNCHANGED <<song, undo_stack, redo_stack, locks>>

\* redo: `state.undo_stack.write().push(current);`
redo_push(t) ==
    /\ At(t, "redo", "push")
    /\ Free("undo_stack")
    /\ undo_stack' = Append(undo_stack, threads[t].current)
    /\ Goto(t, "write")
    /\ UNCHANGED <<song, redo_stack, locks>>

\* redo: `*state.song.write() = next_song;`, true is returned and the
\* redo_stack guard dropped
redo_write(t) ==
    /\ At(t, "redo", "write")
    /\ song' = threads[t].popped
    /\ locks' = [locks EXCEPT !.redo_stack = 0]
    /\ Return(t)
    /\ UNCHANGED <<undo_stack, redo_stack>>

\* The next statement of the command that thread t runs
Statement(t) ==
    \/ push_undo_clone(t)
    \/ push_undo_push(t)
    \/ push_undo_clear(t)
    \/ push_undo_limit(t)
    \/ add_note_write(t)
    \/ undo_pop(t)
    \/ undo_clone(t)
    \/ undo_push(t)
    \/ undo_write(t)
    \/ redo_pop(t)
    \/ redo_clone(t)
    \/ redo_push(t)
    \/ redo_write(t)

\* Thread t runs the next statement of its command
Run(t) ==
    /\ Statement(t)
    /\ UNCHANGED <<now, s_last, s_mutated_at, s_ops, tvars, mvars, fvars>>

ThreadsNext ==
    \/ Invoke
    \/ \E t \in Threads : Run(t)

SpecLocks == ThreadsInit /\ [][ThreadsNext]_vars

\* Every thread that can run its next statement does so in the end
SpecLocksFair == SpecLocks /\ \A t \in Threads : WF_vars(Run(t))

----------------------------------------------------------------------------
(* Claims about the transposition of one pitch *)

TCalled == t_result # NotCalled
TInScale == contains(t_source, pitch_class(t_pitch))
TWithin == TCalled /\ t_target = t_source /\ TInScale

\* The pitch class the claims expect: S.degree(((k + d - 1) mod 7) + 1)
ExpectedClass(scale, pc, d) ==
    degree(scale, ((degree_of(scale, pc) + d - 1) % 7) + 1)

\* C1: within one scale, a successful diatonic transposition of an in-scale
\* pitch by 1..6 degrees returns the lowest pitch strictly above it whose
\* pitch class is the expected degree, by -6..-1 degrees the highest pitch
\* strictly below it; A4 +2 degrees in A natural minor is C5 (72).
C1_NearestInDirection ==
    /\ (TWithin /\ t_result.ok /\ t_degrees \in 1..6) =>
          LET cls == ExpectedClass(t_source, pitch_class(t_pitch), t_degrees)
          IN /\ pitch_class(t_result.midi) = cls
             /\ t_result.midi > t_pitch
             /\ \A q \in (t_pitch + 1)..(t_result.midi - 1) : pitch_class(q) # cls
    /\ (TWithin /\ t_result.ok /\ t_degrees \in (-6)..(-1)) =>
          LET cls == ExpectedClass(t_source, pitch_class(t_pitch), t_degrees)
          IN /\ pitch_class(t_result.midi) = cls
             /\ t_result.midi < t_pitch
             /\ \A q \in (t_result.midi + 1)..(t_pitch - 1) : pitch_class(q) # cls
    /\ (TWithin /\ t_pitch = 69 /\ t_source = a_minor /\ t_degrees = 2) =>
          t_result = Ok(72)

C1_Witness ==
    /\ t_pitch = 69 /\ t_source = a_minor /\ t_target = a_minor
    /\ t_degrees = 2 /\ t_result = Ok(72)

\* C2: within one scale, diatonic transposition of an in-scale pitch by 7
\* degrees and chromatic transposition by 12 semitones either both succeed
\* with pitch + 12 or both return an error.
C2_OctaveAgrees ==
    (TWithin /\ t_degrees = 7 /\ t_semitones = 12) =>
        \/ /\ t_result.ok /\ t_chromatic.ok
           /\ t_result.midi = t_chromatic.midi
           /\ t_result.midi = t_pitch + 12
        \/ /\ ~t_result.ok /\ t_result # Panic
           /\ ~t_chromatic.ok /\ t_chromatic # Panic

C2_Witness ==
    /\ TWithin /\ t_degrees = 7 /\ t_semitones = 12
    /\ t_pitch = 71 /\ t_result = Ok(83) /\ t_chromatic = Ok(83)

\* The algorithm as the specification states it, over unbounded integers.
SpecifiedDiatonic(pitch, source_scale, target_scale, degrees) ==
    LET pc == pitch_class(pitch)
        sdeg == IF degree_of(source_scale, pc) # 0
                THEN degree_of(source_scale, pc)
                ELSE degree_of(source_scale, nearest_scale_tone(source_scale, pc).pc)
        normalized == ((sdeg + degrees - 1) % 7) + 1
        target_pc == degree(target_scale, normalized)
        rem == TruncRem(degrees, 7)
        correction == IF rem > 0 /\ target_pc < pc THEN 1
                      ELSE IF rem < 0 /\ target_pc > pc THEN -1
                      ELSE 0
        result_octave == octave(pitch) + TruncDiv(degrees, 7) + correction
        midi == (result_octave + 1) * 12 + target_pc
    IN IF midi < 0 \/ midi > 127 THEN Err("InvalidPitch") ELSE Ok(midi)

\* C3: for every pitch, source and target scale and degrees value,
\* transpose_pitch_diatonic computes exactly the specified algorithm
\* (floor-mod degree, truncating octave count, boundary correction, no
\* octave contribution from the nearest-scale-tone adjustment).
C3_ComputesSpecified ==
    TCalled => t_result = SpecifiedDiatonic(t_pitch, t_source, t_target, t_degrees)

----------------------------------------------------------------------------
(* Claims about the Score *)

TransposeOps ==
    {"transpose_chromatic", "transpose_diatonic",
     "transpose_diatonic_with_key_change", "transpose"}

\* The last call was a whole-score transposition
STransposed == s_last.op \in TransposeOps

\* The seconds of a timestamp
secs(stamp) == stamp[1]

\* Note i of the score before the last call transposes, under some build
\* setting, to note n
TransposesTo(i, n) ==
    \E oc \in BOOLEAN :
        transpose_note(s_last.before.notes[i], s_last.mode, oc) = NoteOk(n)

\* Note i of the score before the last call fails to transpose
FailsToTranspose(i) ==
    \E oc \in BOOLEAN :
        ~transpose_note(s_last.before.notes[i], s_last.mode, oc).ok

\* C4: a whole-score transposition either succeeds, and then the score holds
\* exactly one transposed note per note it held before, in the same order,
\* or fails, and then the score's notes and key are exactly as they were;
\* it fails (its mode being well formed) only when some note fails to
\* transpose.
C4_AllOrNothing ==
    STransposed =>
        /\ s_last.ok =>
              /\ Len(song.notes) = Len(s_last.before.notes)
              /\ \A i \in 1..Len(song.notes) : TransposesTo(i, song.notes[i])
        /\ ~s_last.ok =>
              /\ song.notes = s_last.before.notes
              /\ song.key = s_last.before.key
        /\ (~s_last.ok /\ s_last.parsed) =>
              \E i \in 1..Len(s_last.before.notes) : FailsToTranspose(i)

\* The command layer's transpose failed on a score of two notes of which
\* one transposes and the other does not
C4_Witness ==
    /\ s_last.op = "transpose"
    /\ ~s_last.ok /\ s_last.parsed
    /\ Len(s_last.before.notes) = 2
    /\ \E i, j \in 1..2 :
          /\ FailsToTranspose(i)
          /\ transpose_note(s_last.before.notes[j], s_last.mode, FALSE).ok
    /\ song.notes = s_last.before.notes

\* C5: a successful whole-score transposition keeps the number of notes and,
\* index by index, each note's start_tick, duration_ticks and velocity.
C5_OnlyPitchesChange ==
    (STransposed /\ s_last.ok) =>
        /\ Len(song.notes) = Len(s_last.before.notes)
        /\ \A i \in 1..Len(song.notes) :
              /\ song.notes[i].start_tick = s_last.before.notes[i].start_tick
              /\ song.notes[i].duration_ticks = s_last.before.notes[i].duration_ticks
              /\ song.notes[i].velocity = s_last.before.notes[i].velocity

\* A successful transposition moved the pitch of a note whose velocity is
\* not the default one
C5_Witness ==
    /\ STransposed /\ s_last.ok
    /\ \E i \in 1..Len(song.notes) :
          /\ song.notes[i].velocity = 90
          /\ song.notes[i].pitch # s_last.before.notes[i].pitch

\* C6: the score's notes are in non-decreasing start_tick order.
C6_NotesSorted ==
    \A i, j \in 1..Len(song.notes) :
        i < j => song.notes[i].start_tick <= song.notes[j].start_tick

\* add_notes was given the later note first and the score holds the earlier
\* note first
C6_Witness ==
    /\ s_last.op = "add_notes"
    /\ song.notes = <<Note_new(71, 0, 240), Note_new(60, 480, 480)>>

\* C7: metadata.modified is never older than the most recent change of the
\* score's notes.
C7_ModifiedCurrent == secs(song.modified) >= s_mutated_at

----------------------------------------------------------------------------
(* Claims about tempo and time signatures *)

\* C8: the score's tempo lies in 20..=300.
C8_TempoInRange == song.tempo >= 20 /\ song.tempo <= 300

\* The custom pattern of the last call does not fit the numerator
Mismatched == Len(meter_last.accents) # meter.numerator

\* C9: the accent pattern's length equals the numerator.
C9_AccentsMatchNumerator == Len(meter.accents) = meter.numerator

\* set_accents was given a pattern longer than the numerator, on a time
\* signature whose pattern had been edited
C9_Witness ==
    /\ meter_last.op = "set_accents"
    /\ Len(meter_last.accents) > meter.numerator
    /\ meter_last.before.accents # default_for_beats(meter.numerator)
    /\ Len(meter.accents) = meter.numerator

\* C10: a custom pattern whose length differs from the numerator, given to
\* with_accents (with a valid numerator and denominator) or to set_accents,
\* raises no error and leaves the default pattern of the numerator.
C10_MismatchFallsBack ==
    /\ (/\ meter_last.op = "with_accents"
        /\ validate(meter_last.numerator, meter_last.denominator)
        /\ Len(meter_last.accents) # meter_last.numerator)
          => /\ meter_last.ok
             /\ meter.accents = default_for_beats(meter.numerator)
    /\ (meter_last.op = "set_accents" /\ Mismatched)
          => /\ meter_last.ok
             /\ meter.accents = default_for_beats(meter.numerator)

\* C10, amended: such a pattern raises no error; with_accents builds the
\* time signature with the default pattern of the numerator, and set_accents
\* leaves the time signature, its current pattern included, as it was.
C10_MismatchRejected ==
    /\ (/\ meter_last.op = "with_accents"
        /\ validate(meter_last.numerator, meter_last.denominator)
        /\ Len(meter_last.accents) # meter_last.numerator)
          => /\ meter_last.ok
             /\ meter.numerator = meter_last.numerator
             /\ meter.denominator = meter_last.denominator
             /\ meter.accents = default_for_beats(meter.numerator)
    /\ (meter_last.op = "set_accents" /\ Mismatched)
          => /\ meter_last.ok
             /\ meter = meter_last.before

\* set_accents rejected a pattern while the current pattern was not the
\* default one
C10_Witness ==
    /\ meter_last.op = "set_accents"
    /\ Mismatched
    /\ meter.accents # default_for_beats(meter.numerator)

----------------------------------------------------------------------------
(* Claims about pitch classes and pitches *)

C16_NewPitch ==
    result.called =>
        result.value =
            IF (call.octave + 1) * 12 + call.pitch_class \in 0..MIDI_MAX
            THEN Ok((call.octave + 1) * 12 + call.pitch_class)
            ELSE Err("InvalidPitch")

\* C20: transpose_pitch_diatonic returns a pitch or an error value, never a
\* panic.
C20_NeverFatal == TCalled => t_result # Panic

----------------------------------------------------------------------------
(* Claims about accent cycling and beats *)

\* The level after a level, along Weak -> Medium -> Strong -> Weak
NextLevel(level) ==
    IF level = Weak THEN Medium ELSE IF level = Medium THEN Strong ELSE Weak

\* C17: cycle(i) inside the pattern moves beat i one step along
\* Weak -> Medium -> Strong -> Weak and leaves the other beats and the length
\* alone; outside the pattern it changes nothing; three cycle(i) in a row
\* restore the pattern.
C17_CycleStep ==
    /\ meter_last.op = "cycle" =>
          IF meter_last.index < Len(meter_last.before.accents)
          THEN /\ Len(meter.accents) = Len(meter_last.before.accents)
               /\ \A j \in 1..Len(meter.accents) :
                     meter.accents[j] =
                        IF j = meter_last.index + 1
                        THEN NextLevel(meter_last.before.accents[j])
                        ELSE meter_last.before.accents[j]
               /\ meter.numerator = meter_last.before.numerator
               /\ meter.denominator = meter_last.before.denominator
          ELSE meter = meter_last.before
    /\ \A i \in 0..MaxNumerator :
          AccentPattern_cycle(
              AccentPattern_cycle(AccentPattern_cycle(meter.accents, i), i), i)
            = meter.accents

\* A cycle took the last beat from Strong to Weak
C17_Witness ==
    /\ meter_last.op = "cycle"
    /\ meter_last.index = meter.numerator - 1
    /\ meter_last.before.accents[meter.numerator] = Strong
    /\ meter.accents[meter.numerator] = Weak

\* C18: on a valid time signature beat_at_tick(t) is
\* (t mod ticks_per_measure) / ticks_per_beat and lies in 0..numerator-1, one
\* measure later the beat is the same, and accent_at_tick(t) is the entry of
\* the accent pattern at that beat; in 4/4 the beats at ticks 0, 480, 960,
\* 1440, 1920 are 0, 1, 2, 3, 0.
C18_BeatInMeasure ==
    /\ result.called =>
          /\ result.value.beat =
                (call.tick % (ticks_per_beat(BeatSignature) * call.numerator))
                    \div ticks_per_beat(BeatSignature)
          /\ result.value.beat \in 0..(call.numerator - 1)
          /\ result.value.next_measure = result.value.beat
          /\ result.value.beat + 1 \in DOMAIN BeatSignature.accents
          /\ result.value.accent =
                BeatSignature.accents[result.value.beat + 1]
    /\ (result.called /\ call.numerator = 4 /\ call.denominator = 4) =>
          /\ ticks_per_measure(BeatSignature) = 1920
          /\ call.tick \in {0, 1920} => result.value.beat = 0
          /\ call.tick = 480 => result.value.beat = 1
          /\ call.tick = 960 => result.value.beat = 2
          /\ call.tick = 1440 => result.value.beat = 3

\* The last beat of the third measure of 7/8, found again a measure later
C18_Witness ==
    /\ result.called
    /\ call.numerator = 7 /\ call.denominator = 8
    /\ call.tick = 2 * 1680 + 6 * 240 + 119
    /\ result.value.beat = 6
    /\ result.value.next_measure = 6
    /\ result.value.accent = BeatSignature.accents[7]

-----------------------------------------------------------------------------
(* Claims about scale detection *)

\* The pitch classes of a melody's MIDI pitches
MelodyClasses == {call.notes[i].pitch % 12 :
                    i \in {j \in 1..Len(call.notes) : call.notes[j].pitch <= 127}}

\* The pitch classes of the scale on `root`
ScaleClasses(root, scale_type) ==
    {(root + intervals(scale_type)[i]) % 12 : i \in 1..7}

\* The rank of candidate k (0..23: root k \div 2, minor when k is even): the
\* score tuple as one number, most significant entry first
Rank(k) ==
    LET root == k \div 2
        minor == k % 2 = 0
        common == Cardinality(MelodyClasses \cap
                     ScaleClasses(root, IF minor THEN "NaturalMinor" ELSE "Major"))
        last == call.notes[Len(call.notes)].pitch
    IN (IF common = Cardinality(MelodyClasses) THEN 64 ELSE 0)
       + (IF last <= 127 /\ last % 12 = root THEN 32 ELSE 0)
       + (IF minor THEN 16 ELSE 0)
       + common

\* C19: detect_scale returns none exactly for the empty melody; otherwise the
\* first candidate (roots C..B, NaturalMinor before Major) of the greatest
\* score; so the result is Major or NaturalMinor, and contains every pitch
\* class of the melody whenever some Major or NaturalMinor scale does.
C19_BestCandidate ==
    result.called =>
        /\ result.value = NoScale <=> Len(call.notes) = 0
        /\ Len(call.notes) > 0 =>
              /\ result.value.scale_type \in {"Major", "NaturalMinor"}
              /\ result.value.root \in PitchClasses
              /\ \E k \in 0..23 :
                    /\ result.value.root = k \div 2
                    /\ result.value.scale_type = "NaturalMinor" <=> k % 2 = 0
                    /\ \A j \in 0..23 : Rank(j) <= Rank(k)
                    /\ \A j \in 0..(k - 1) : Rank(j) < Rank(k)
              /\ (\E r \in PitchClasses, st \in {"Major", "NaturalMinor"} :
                     MelodyClasses \subseteq ScaleClasses(r, st))
                 => MelodyClasses \subseteq
                       ScaleClasses(result.value.root, result.value.scale_type)

\* C, E, G ending on E: A minor, E minor and the major scales of C and G hold
\* the three pitch classes, and E minor is returned for its root
C19_Witness ==
    /\ result.called
    /\ Len(call.notes) = 3
    /\ call.notes[1].pitch = 60 /\ call.notes[2].pitch = 67
    /\ call.notes[3].pitch = 64
    /\ result.value = Scale_new(4, "NaturalMinor")

\* A melody no Major or NaturalMinor scale holds: three neighbouring semitones
C19_WitnessPartial ==
    /\ result.called
    /\ MelodyClasses = {0, 1, 2}
    /\ result.value # NoScale

-----------------------------------------------------------------------------
(* Claims about the MIDI export *)

\* The number a sequence of bytes denotes as a variable-length quantity
RECURSIVE Decoded(_)
Decoded(bytes) ==
    IF bytes = <<>> THEN 0
    ELSE Decoded(SubSeq(bytes, 1, Len(bytes) - 1)) * 128
           + (bytes[Len(bytes)] % 128)

\* C12: write_var_length appends, for every 32-bit value it is given, the
\* shortest sequence of 7-bit groups, most significant first, every byte but
\* the last with bit 7 set, which decodes to the value; 0, 127, 128 and 480
\* give 00, 7F, 81 00 and 83 60.
C12_VarLength ==
    result.called =>
        /\ result.value.ok
        /\ Len(result.value.data) >= 1
        /\ \A k \in 1..Len(result.value.data) :
              /\ result.value.data[k] \in 0..255
              /\ result.value.data[k] >= 128 <=> k < Len(result.value.data)
        /\ Decoded(result.value.data) = call.value
        /\ Len(result.value.data) > 1 => result.value.data[1] # 128
        /\ call.value = 0 => result.value.data = <<0>>
        /\ call.value = 127 => result.value.data = <<127>>
        /\ call.value = 128 => result.value.data = <<129, 0>>
        /\ call.value = 480 => result.value.data = <<131, 96>>

\* The number of bytes of the variable-length quantity that starts at pos
RECURSIVE QuantityLen(_, _)
QuantityLen(bytes, pos) ==
    IF bytes[pos] < 128 THEN 1 ELSE 1 + QuantityLen(bytes, pos + 1)

\* The channel events read back from bytes[pos..stop]: delta time, status,
\* pitch, velocity; the ticks are the sums of the delta times
RECURSIVE WrittenEvents(_, _, _, _)
WrittenEvents(bytes, pos, stop, tick) ==
    IF pos > stop THEN <<>>
    ELSE <<[tick |-> tick + Decoded(SubSeq(bytes, pos,
                                pos + QuantityLen(bytes, pos) - 1)),
            is_on |-> bytes[pos + QuantityLen(bytes, pos)] = 144,
            pitch |-> bytes[pos + QuantityLen(bytes, pos) + 1]]>>
         \o WrittenEvents(bytes, pos + QuantityLen(bytes, pos) + 3, stop,
                tick + Decoded(SubSeq(bytes, pos,
                          pos + QuantityLen(bytes, pos) - 1)))

\* Where the note events of the exported file start: behind the two chunk
\* heads (14 + 8 bytes), the tempo, time and key signatures (7 + 8 + 6) and
\* the track name (3 bytes, a length of one byte, the title)
FirstEventAt == 22 + 21 + 4 + Len(as_bytes(call.score.title)) + 1

\* The note events of the exported file, in the order written
ExportedEvents ==
    WrittenEvents(result.value.data, FirstEventAt,
                  Len(result.value.data) - 4, 0)

\* C11: the note events of an exported file are in non-decreasing order of
\* their ticks, and of two events at the same tick a Note-Off is never
\* behind a Note-On.
C11_EventOrder ==
    (result.called /\ result.value.ok) =>
        /\ Len(ExportedEvents) = 2 * Len(call.score.notes)
        /\ \A i, j \in 1..Len(ExportedEvents) :
              i < j =>
                 /\ ExportedEvents[i].tick <= ExportedEvents[j].tick
                 /\ ExportedEvents[i].tick = ExportedEvents[j].tick =>
                       ~(ExportedEvents[i].is_on /\ ~ExportedEvents[j].is_on)

\* A quarter note, then a note of no duration where it ends: on at 0, then
\* both offs at 480 before the on at 480
C11_Witness ==
    /\ result.called /\ result.value.ok
    /\ call.score.notes = <<Note_new(60, 0, 480), Note_new(64, 480, 0)>>
    /\ [k \in 1..4 |-> ExportedEvents[k].tick] = <<0, 480, 480, 480>>
    /\ [k \in 1..4 |-> ExportedEvents[k].is_on] = <<TRUE, FALSE, FALSE, TRUE>>

\* C13: the export of every score is the 14 bytes of the header chunk
\* ("MThd", length 6, format 0, one track, division 480), then one "MTrk"
\* chunk whose length field counts the bytes behind it up to the end of the
\* output, the last of them FF 2F 00.
C13_FileLayout ==
    result.called =>
        /\ result.value.ok
        /\ Len(result.value.data) >= 25
        /\ SubSeq(result.value.data, 1, 14) =
              <<77, 84, 104, 100, 0, 0, 0, 6, 0, 0, 0, 1, 1, 224>>
        /\ SubSeq(result.value.data, 15, 18) = <<77, 84, 114, 107>>
        /\ ((result.value.data[19] * 256 + result.value.data[20]) * 256
               + result.value.data[21]) * 256 + result.value.data[22]
             = Len(result.value.data) - 22
        /\ SubSeq(result.value.data, Len(result.value.data) - 2,
                  Len(result.value.data)) = <<255, 47, 0>>

-----------------------------------------------------------------------------
(* Claims about the melody notation *)

\* The positions of the note tokens of the call, in token order
NoteTokens ==
    SelectSeq([i \in 1..Len(call.tokens) |-> i],
              LAMBDA i : call.tokens[i].kind = "note")

\* The sum of the durations of the tokens before position i
RECURSIVE TicksBefore(_)
TicksBefore(i) ==
    IF i = 1 THEN 0 ELSE TicksBefore(i - 1) + call.tokens[i - 1].ticks

\* C14: for a sequence of valid note and rest tokens parse_melody returns one
\* note per note token, in token order, each starting at the sum of the
\* durations of the tokens before it; rests give no note; so a note never
\* starts before the end of the note before it, and "C4q D4q E4q" gives the
\* pitches 60, 62, 64 at the ticks 0, 480, 960.
C14_StartTicks ==
    (result.called /\ \A i \in 1..Len(call.tokens) :
                          call.tokens[i].kind # "none") =>
        /\ result.value.ok
        /\ Len(result.value.notes) = Len(NoteTokens)
        /\ \A k \in 1..Len(NoteTokens) :
              /\ result.value.notes[k].pitch = call.tokens[NoteTokens[k]].midi
              /\ result.value.notes[k].duration_ticks
                    = call.tokens[NoteTokens[k]].ticks
              /\ result.value.notes[k].start_tick = TicksBefore(NoteTokens[k])
        /\ \A k \in 2..Len(result.value.notes) :
              result.value.notes[k].start_tick
                 >= result.value.notes[k - 1].start_tick
                      + result.value.notes[k - 1].duration_ticks
        /\ joined(call.tokens) = <<"C", "4", "q", " ", "D", "4", "q", " ",
                                   "E", "4", "q">>
           => /\ [k \in 1..3 |-> result.value.notes[k].pitch] = <<60, 62, 64>>
              /\ [k \in 1..3 |-> result.value.notes[k].start_tick]
                    = <<0, 480, 960>>

\* A note, a dotted half rest and a note: the second note starts at 1920
C14_Witness ==
    /\ result.called /\ result.value.ok
    /\ Len(call.tokens) = 3
    /\ call.tokens[1].text = <<"C", "4", "q">>
    /\ call.tokens[2].text = <<"r", "h", ".">>
    /\ call.tokens[3].text = <<"B", "b", "3", "e">>
    /\ Len(result.value.notes) = 2
    /\ result.value.notes[2].pitch = 58
    /\ result.value.notes[2].start_tick = 1920

-----------------------------------------------------------------------------
(* Claims about the nearest scale tone and diatonic transposition *)

\* The pitch classes of the scale of the call
CallScaleTones ==
    {(call.scale.root + intervals(call.scale.scale_type)[i]) % 12 : i \in 1..7}

\* The circular distance in semitones between two pitch classes
Circular(a, b) ==
    IF (a - b) % 12 <= (b - a) % 12 THEN (a - b) % 12 ELSE (b - a) % 12

\* Candidate k of the scan, k in 0..20: tone (k div 3) of the interval table
\* with diff, diff - 12, diff + 12 for k mod 3 = 0, 1, 2
ScanCandidate(k) ==
    intervals(call.scale.scale_type)[(k \div 3) + 1]
      - ((call.pitch_class - call.scale.root) % 12)
      + (IF k % 3 = 1 THEN -12 ELSE IF k % 3 = 2 THEN 12 ELSE 0)

\* |x|
Magnitude(x) == IF x < 0 THEN -x ELSE x

\* C22: nearest_scale_tone(pc) is (tone, adjustment) with tone in the scale,
\* tone = pc.transpose(adjustment), |adjustment| the least circular distance
\* from pc to a scale tone (0 exactly for a scale tone), and the adjustment
\* the first of that size in the scan over the interval table with the
\* candidates diff, diff - 12, diff + 12 per tone.
C22_NearestTone ==
    result.called =>
        /\ result.value.pc \in CallScaleTones
        /\ result.value.pc = (call.pitch_class + result.value.adjustment) % 12
        /\ \A tone \in CallScaleTones :
              Magnitude(result.value.adjustment)
                 <= Circular(tone, call.pitch_class)
        /\ \E tone \in CallScaleTones :
              Magnitude(result.value.adjustment)
                 = Circular(tone, call.pitch_class)
        /\ result.value.adjustment = 0 <=> call.pitch_class \in CallScaleTones
        /\ call.pitch_class \notin CallScaleTones =>
              \E k \in 0..20 :
                 /\ ScanCandidate(k) = result.value.adjustment
                 /\ \A j \in 0..(k - 1) :
                       Magnitude(ScanCandidate(j))
                          > Magnitude(result.value.adjustment)

\* C sharp in C major lies between C and D: C, met first, is kept
C22_Witness ==
    /\ result.called
    /\ call.scale = c_major /\ call.pitch_class = 1
    /\ result.value = [pc |-> 0, adjustment |-> -1]

\* C23: within one scale and by 0 degrees, a pitch whose pitch class is not
\* in the scale is moved to the pitch p + a, where a is the adjustment of
\* nearest_scale_tone for its pitch class: the scale tone nearest to p.
C23_SnapsToNearest ==
    (TCalled /\ t_target = t_source /\ ~TInScale /\ t_degrees = 0) =>
        t_result =
           Ok(t_pitch
              + nearest_scale_tone(t_source, pitch_class(t_pitch)).adjustment)

\* C24: within one scale, when the transposition of a scale tone p by d
\* degrees succeeds with q, the transposition of q by -d degrees succeeds and
\* returns p; the transposition by 0 degrees returns p.
C24_Invertible ==
    result.called =>
        /\ result.value.there.ok => result.value.back = Ok(call.pitch)
        /\ call.degrees = 0 => result.value.there = Ok(call.pitch)

\* B4 up a degree in C major crosses into the next octave, and comes back
C24_Witness ==
    /\ result.called
    /\ call.pitch = 71 /\ call.scale = c_major /\ call.degrees = 1
    /\ result.value.there = Ok(72)
    /\ result.value.back = Ok(71)

\* The number of the first n exported events of a pitch that are Note-Ons
\* (Note-Offs)
Written(n, pitch, is_on) ==
    Cardinality({k \in 1..n : /\ ExportedEvents[k].pitch = pitch
                              /\ ExportedEvents[k].is_on = is_on})

\* C25: in the exported event stream every note's Note-On is written before
\* its Note-Off: in every prefix of the stream and for every pitch there are
\* no more Note-Offs than Note-Ons, and no pitch is left sounding at the end.
C25_OnBeforeOff ==
    (result.called /\ result.value.ok) =>
        \A n \in 1..Len(ExportedEvents) :
           /\ Written(n, ExportedEvents[n].pitch, FALSE)
                 <= Written(n, ExportedEvents[n].pitch, TRUE)
           /\ (\A k \in (n + 1)..Len(ExportedEvents) :
                  ExportedEvents[k].pitch # ExportedEvents[n].pitch)
              => ~ExportedEvents[n].is_on

-----------------------------------------------------------------------------
(* Claims about the inversion *)

\* C30: Mozart::invert(pivot) either replaces every pitch by
\* 2 * pivot - pitch, all in 0..127, and succeeds, or returns an error and
\* leaves every pitch as it was; start, duration and velocity stay in both
\* cases.
C30_InvertAllOrNothing ==
    result.called =>
        /\ Len(result.value.song.notes) = Len(call.score.notes)
        /\ \A i \in 1..Len(call.score.notes) :
              /\ result.value.song.notes[i].start_tick
                    = call.score.notes[i].start_tick
              /\ result.value.song.notes[i].duration_ticks
                    = call.score.notes[i].duration_ticks
              /\ result.value.song.notes[i].velocity
                    = call.score.notes[i].velocity
        /\ IF result.value.ok
           THEN \A i \in 1..Len(call.score.notes) :
                   /\ result.value.song.notes[i].pitch
                         = 2 * call.pivot - call.score.notes[i].pitch
                   /\ result.value.song.notes[i].pitch \in 0..127
           ELSE \A i \in 1..Len(call.score.notes) :
                   result.value.song.notes[i].pitch = call.score.notes[i].pitch

-----------------------------------------------------------------------------
(* Claims about the JSON codec *)

----------------------------------------------------------------------------
(* Claims about the desktop commands and their history *)

Undoable ==
    {"new_song", "add_note", "remove_note", "clear_notes", "parse_text_melody",
     "transpose", "load_song", "load_song_json"}

\* A step that runs the command op
Runs(op) == s_ops' = s_ops + 1 /\ result'.value.op = op
Ran(op) == result.called /\ result.value.op = op

C27_HistoryLimit ==
    /\ Len(undo_stack) <= UNDO_LIMIT
    /\ (Ran("add_note") /\ Len(result.value.undo_stack) = UNDO_LIMIT)
         => undo_stack = Append(Tail(result.value.undo_stack), result.value.song)

\* A note was entered when the undo stack was full
C27_Witness ==
    /\ Ran("add_note")
    /\ Len(result.value.undo_stack) = UNDO_LIMIT
    /\ result.value.undo_stack[1] # undo_stack[1]

\* A redo has filled the undo stack to its limit
C27_WitnessRedo ==
    /\ Ran("redo")
    /\ result.value.returned
    /\ Len(undo_stack) = UNDO_LIMIT

\* C28: when transpose or parse_text_melody returns an error, or
\* remove_note returns nothing, the song, the undo stack and the redo stack
\* are what they were before the command.
C28_FailureKeepsHistory ==
    (/\ result.called
     /\ result.value.op \in {"transpose", "parse_text_melody", "remove_note"}
     /\ ~result.value.returned)
        => /\ song = result.value.song
           /\ undo_stack = result.value.undo_stack
           /\ redo_stack = result.value.redo_stack

\* C29: the locks cannot deadlock.  With commands running on several
\* threads, every command that was called returns in the end: a thread in
\* the middle of a command gets every lock it waits for.
C29_EveryCommandReturns ==
    \A t \in Threads :
        (threads[t].pc # "idle") ~> (threads[t].pc = "idle")

====
